---- MODULE Spec2Model ----
(***************************************************************************)
(* Browser client of the assembly voting application (frontend/app.js,     *)
(* first revision, lines 1-3598): session state, the two push channels,    *)
(* the reconnection policy, the message routers and the polling intervals. *)
(* One JavaScript execution context: every action below is one turn of     *)
(* the event loop (a handler run up to its next await or to its end).      *)
(***************************************************************************)
EXTENDS Integers, Sequences, FiniteSets, TLC

\* ---------------------------------------------------------------------
\* Program constants
\* ---------------------------------------------------------------------
MAX_RECONNECT_ATTEMPTS == 5
CODIGO_PRUEBA == "999-999"
BackoffBase == 1000
BackoffCap == 30000
DedupWindow == 5000

\* ---------------------------------------------------------------------
\* Bounds of the model
\* ---------------------------------------------------------------------
MaxSockets == 2      \* socket objects that exist at the same time
MaxTimers == 1       \* reconnect timeouts pending at the same time
MaxInFlight == 1     \* login requests awaiting their response at the same time
MaxTimeouts == 1     \* pending one-shot timeouts of each other kind
MaxTicks == 8        \* seconds of wall-clock time that pass
MaxMsgs == 2         \* question_expired messages received per question
MaxLog == 3          \* entries of the activity log (the code keeps 50)
MaxToasts == 2       \* toasts in the notification container at the same time
MaxSeconds == 3      \* largest time_remaining_seconds the server sends
MaxRefresh == 2      \* refresh timeouts pending from frames without data
MaxFrames == 3       \* frames recorded per observed socket
MaxModals == 3
MaxHideTimers == 2
MaxPromises == 2
MaxOptions == 3
MaxExpire == 2       \* expiry refreshes counted per countdown

Roles == {"admin", "voter"}
SocketIds == 1..MaxSockets
RealCode == "1-201"
NoUser == "null"
NoCallback == [fn |-> "undefined", promise |-> 0]

VARIABLES
    adminToken,          \* TRUE iff adminToken is a token (not null)
    voterToken,          \* TRUE iff voterToken is a token (not null)
    currentUser,         \* NoUser, or the code of the current user
    isAdmin,
    storage,             \* localStorage: which of admin_token, voter_token exist
    screen,              \* the screen left visible by showScreen
    adminWebSocket,      \* 0 (null) or the id of the referenced socket
    voterWebSocket,
    sockets,             \* socket objects: role and readyState, "free" = no object
    wsReconnectAttempts,
    reconnectTimers,     \* pending timeouts of attemptWebSocketReconnect
    scheduledDelays,     \* delays passed to setTimeout since the counter was last 0
    exhausted,           \* the "Conexion perdida" warning was shown in this session
    restorePc,           \* position of the DOMContentLoaded handler
    inflight,            \* login requests awaiting their response, per kind
    timeouts,            \* pending one-shot timeouts, per kind
    intervals,           \* which setInterval clocks are running
    liveModal,           \* the live-results modal is in the DOM
    now,                 \* Date.now(), in ms
    lastNotifications,   \* window.lastNotifications: question id -> ms, 0 = no entry
    activityLog,         \* activityLog, newest entry first
    toasts,              \* notifications shown by the admin router, oldest first
    reloadRequests,      \* per message kind: refresh timeouts set by the admin router
    expiredSeen,         \* per question: when its question_expired messages arrived
    questionTimers,      \* data-remaining of the .question-timer elements in the document
    timers,              \* data-remaining of the elements held by the running clock (the NodeList timers)
    timersInDocument,    \* the elements held by the clock are the ones in the document
    votingCards,         \* the container of the voter screen holds voting cards
    agotado,             \* questions whose element in the document reads "Tiempo agotado"
    expireRefreshes,     \* per question: expiry refreshes set since its countdown was rendered
    afterBadFrame,       \* history: "dropped" once a frame failed, "dispatched" once a later frame reached a router
    unknownFrames,       \* history: a frame of an unrecognized type reached a router
    constructorThrows,   \* environment: new WebSocket(url) throws on this page
    observed,            \* history: the sockets whose frames are being recorded
    delivered,           \* history: per socket, the frames the transport handed to onmessage
    dispatched,          \* history: per socket, the messages onmessage handed to the router
    reloadTimers,        \* pending setTimeout(() => loadActiveQuestions(), ...) of the admin router
    loadActiveQuestionsTimeout, \* live timeouts of loadActiveQuestions(): its fetch, 100 ms away
    activeFetches,       \* history: fetches of the active questions issued by loadActiveQuestions()
    aforoTimers,         \* pending timeouts of the admin router that call loadAforoData()
    aforoFetches,        \* history: fetches issued by loadAforoData() for the admin router
    container,           \* ModalSystem.container: the modal elements in the DOM
    activeModal,         \* ModalSystem.activeModal: 0 (null) or a modal element
    modalsCreated,       \* modal elements created by ModalSystem.show() on this page
    hideTimers,          \* pending 300 ms timeouts of hide(), oldest first; history: the modal hide() was called on
    powerPromises,       \* the promises returned by showPowerQuestion(): "pending", "false" or "true"
    powerResolveCallback, \* window.powerResolveCallback: NoCallback or a function
    powerTimeouts,       \* promises whose 60 s timeout of showPowerQuestion() is pending
    maxSelections,       \* max_selections of the rendered multiple-choice card
    allowMultiple,       \* isMultiple of the rendered multiple-choice card
    selected,            \* the .multiple-option elements of the card with class selected
    submitDisabled       \* disabled of the card's .submit-btn

connVars == <<adminWebSocket, voterWebSocket, sockets, wsReconnectAttempts,
              reconnectTimers, scheduledDelays, exhausted>>
sessVars == <<adminToken, voterToken, currentUser, isAdmin, storage, screen>>
asyncVars == <<restorePc, inflight, timeouts>>
uiVars == <<intervals, liveModal>>
envVars == <<constructorThrows>>
traceVars == <<observed, delivered, dispatched>>
refreshVars == <<reloadTimers, loadActiveQuestionsTimeout, activeFetches, aforoTimers,
                 aforoFetches>>
modalVars == <<container, activeModal, modalsCreated, hideTimers, powerPromises,
               powerResolveCallback, powerTimeouts>>
choiceVars == <<maxSelections, allowMultiple, selected, submitDisabled>>
msgVars == <<now, lastNotifications, activityLog, toasts, reloadRequests, expiredSeen,
             afterBadFrame, unknownFrames, constructorThrows, observed, delivered,
             dispatched, reloadTimers, loadActiveQuestionsTimeout, activeFetches,
             aforoTimers, aforoFetches, container, activeModal, modalsCreated,
             hideTimers, powerPromises, powerResolveCallback, powerTimeouts,
             maxSelections, allowMultiple, selected, submitDisabled>>
clockVars == <<questionTimers, timers, timersInDocument, votingCards, agotado,
               expireRefreshes>>
vars == <<adminToken, voterToken, currentUser, isAdmin, storage, screen,
          adminWebSocket, voterWebSocket, sockets, wsReconnectAttempts,
          reconnectTimers, scheduledDelays, exhausted, restorePc, inflight,
          timeouts, intervals, liveModal, now, lastNotifications, activityLog,
          toasts, reloadRequests, expiredSeen, questionTimers, timers,
          timersInDocument, votingCards, agotado, expireRefreshes, afterBadFrame,
          unknownFrames, constructorThrows, observed, delivered, dispatched,
          reloadTimers, loadActiveQuestionsTimeout, activeFetches, aforoTimers,
          aforoFetches, container, activeModal, modalsCreated, hideTimers,
          powerPromises, powerResolveCallback, powerTimeouts, maxSelections,
          allowMultiple, selected, submitDisabled>>

RequestKinds == {"adminLogin", "voterLogin", "demoLogin", "register", "reset",
                 "questions", "vote", "deleteCode"}
TimeoutKinds == {"forceLogout", "reload", "welcome", "loadQuestions", "initTimer",
                 "adminData", "nombre", "loadActive", "demoQuestions"}
QuestionIds == {7, 8}
\* data-remaining of a question that has no countdown element: a value no
\* countdown takes.
NoTimer == 0 - 1000
NoTimers == [q \in QuestionIds |-> NoTimer]
AdminMessageKinds == {"attendance_registered", "vote_registered", "question_created",
                      "participant_removed", "question_expired"}
IntervalNames == {"timerInterval", "adminTimerInterval", "liveUpdateInterval",
                  "monitoringInterval", "usersRefreshInterval"}

Min(a, b) == IF a < b THEN a ELSE b

RECURSIVE Pow2(_)
Pow2(n) == IF n = 0 THEN 1 ELSE 2 * Pow2(n - 1)

FreeSocket == [role |-> "none", state |-> "free"]
Live(s) == sockets[s].state \in {"connecting", "open"}
InFlightTotal == inflight["adminLogin"] + inflight["voterLogin"] + inflight["demoLogin"]
                 + inflight["register"] + inflight["reset"]

\* ---------------------------------------------------------------------
\* Page load
\* ---------------------------------------------------------------------
InitWith(st) ==
    /\ adminToken = FALSE
    /\ voterToken = FALSE
    /\ currentUser = NoUser
    /\ isAdmin = FALSE
    /\ storage = st
    /\ screen = "welcome-screen"
    /\ adminWebSocket = 0
    /\ voterWebSocket = 0
    /\ sockets = [s \in SocketIds |-> FreeSocket]
    /\ wsReconnectAttempts = 0
    /\ reconnectTimers = <<>>
    /\ scheduledDelays = <<>>
    /\ exhausted = FALSE
    /\ restorePc = "start"
    /\ inflight = [k \in RequestKinds |-> 0]
    /\ timeouts = [k \in TimeoutKinds |-> 0]
    /\ intervals = [n \in IntervalNames |-> FALSE]
    /\ liveModal = FALSE
    /\ now = 1000
    /\ lastNotifications = [q \in QuestionIds |-> 0]
    /\ activityLog = <<>>
    /\ toasts = <<>>
    /\ reloadRequests = [k \in AdminMessageKinds |-> 0]
    /\ expiredSeen = [q \in QuestionIds |-> <<>>]
    /\ questionTimers = NoTimers
    /\ timers = NoTimers
    /\ timersInDocument = FALSE
    /\ votingCards = FALSE
    /\ agotado = {}
    /\ expireRefreshes = [q \in QuestionIds |-> 0]
    /\ afterBadFrame = "none"
    /\ unknownFrames = FALSE
    /\ observed = {}
    /\ delivered = [s \in SocketIds |-> <<>>]
    /\ dispatched = [s \in SocketIds |-> <<>>]
    /\ reloadTimers = 0
    /\ loadActiveQuestionsTimeout = 0
    /\ activeFetches = 0
    /\ aforoTimers = 0
    /\ aforoFetches = 0
    /\ container = {}
    /\ activeModal = 0
    /\ modalsCreated = 0
    /\ hideTimers = <<>>
    /\ powerPromises = <<>>
    /\ powerResolveCallback = NoCallback
    /\ powerTimeouts = {}
    /\ maxSelections = 1
    /\ allowMultiple = FALSE
    /\ selected = {}
    /\ submitDisabled = TRUE

Init ==
    /\ InitWith([admin_token |-> FALSE, voter_token |-> FALSE])
    /\ constructorThrows = FALSE

\* ---------------------------------------------------------------------
\* Helpers for the pending one-shot callbacks.  A count that has reached
\* MaxTimeouts stands for "MaxTimeouts or more": taking one from it may
\* leave it where it is.
\* ---------------------------------------------------------------------
Schedule(t, k) == [t EXCEPT ![k] = Min(@ + 1, MaxTimeouts)]

AfterFire(k) ==
    IF timeouts[k] = MaxTimeouts
    THEN {timeouts, [timeouts EXCEPT ![k] = @ - 1]}
    ELSE {[timeouts EXCEPT ![k] = @ - 1]}

RemoveAt(seq, i) == SubSeq(seq, 1, i - 1) \o SubSeq(seq, i + 1, Len(seq))

\* The lowest unused socket slot, 0 when MaxSockets objects exist.
NewSocket ==
    IF \E s \in SocketIds : sockets[s].state = "free"
    THEN CHOOSE s \in SocketIds :
            /\ sockets[s].state = "free"
            /\ \A t \in SocketIds : sockets[t].state = "free" => s <= t
    ELSE 0

\* ---------------------------------------------------------------------
\* Token storage
\* ---------------------------------------------------------------------
saveToken(st, type) == [st EXCEPT ![type] = TRUE]

\* clearTokens that forgets to remove voter_token.
clearTokens_adminOnly == [storage EXCEPT !.admin_token = FALSE]

clearTokens == [admin_token |-> FALSE, voter_token |-> FALSE]

\* ---------------------------------------------------------------------
\* WebSocket management
\* ---------------------------------------------------------------------
\* connectAdminWebSocket(), connectVoterWebSocket(): when the constructor
\* throws, the assignment to the reference and the handlers are skipped and the
\* catch logs.
connectAdminWebSocket ==
    IF constructorThrows
    THEN UNCHANGED <<sockets, adminWebSocket, voterWebSocket>>
    ELSE /\ NewSocket # 0
         /\ sockets' = [sockets EXCEPT ![NewSocket] = [role |-> "admin", state |-> "connecting"]]
         /\ adminWebSocket' = NewSocket
         /\ UNCHANGED voterWebSocket

connectVoterWebSocket ==
    IF constructorThrows
    THEN UNCHANGED <<sockets, adminWebSocket, voterWebSocket>>
    ELSE /\ NewSocket # 0
         /\ sockets' = [sockets EXCEPT ![NewSocket] = [role |-> "voter", state |-> "connecting"]]
         /\ voterWebSocket' = NewSocket
         /\ UNCHANGED adminWebSocket

\* connectWebSocket() as called with isAdmin = adm and currentUser = user.
connectWebSocket(adm, user) ==
    IF adm /\ adminWebSocket = 0
    THEN connectAdminWebSocket
    ELSE IF user # NoUser /\ voterWebSocket = 0
         THEN connectVoterWebSocket
         ELSE UNCHANGED <<sockets, adminWebSocket, voterWebSocket>>

\* nextDelay without the 30 s cap.
nextDelay_uncapped(attempts) == BackoffBase * Pow2(attempts)

nextDelay(attempts) == Min(BackoffBase * Pow2(attempts), BackoffCap)

\* attemptWebSocketReconnect that retries once more (<= for <).
attemptWebSocketReconnect_oneMore(type) ==
    IF wsReconnectAttempts <= MAX_RECONNECT_ATTEMPTS
    THEN /\ Len(reconnectTimers) < MaxTimers
         /\ wsReconnectAttempts' = wsReconnectAttempts + 1
         /\ reconnectTimers' = Append(reconnectTimers,
                [type |-> type, delay |-> nextDelay(wsReconnectAttempts + 1)])
         /\ scheduledDelays' = Append(scheduledDelays, nextDelay(wsReconnectAttempts + 1))
         /\ UNCHANGED exhausted
    ELSE /\ exhausted' = TRUE
         /\ UNCHANGED <<wsReconnectAttempts, reconnectTimers, scheduledDelays>>

attemptWebSocketReconnect(type) ==
    IF wsReconnectAttempts < MAX_RECONNECT_ATTEMPTS
    THEN /\ Len(reconnectTimers) < MaxTimers
         /\ wsReconnectAttempts' = wsReconnectAttempts + 1
         /\ reconnectTimers' = Append(reconnectTimers,
                [type |-> type, delay |-> nextDelay(wsReconnectAttempts + 1)])
         /\ scheduledDelays' = Append(scheduledDelays, nextDelay(wsReconnectAttempts + 1))
         /\ UNCHANGED exhausted
    ELSE /\ exhausted' = TRUE
         /\ UNCHANGED <<wsReconnectAttempts, reconnectTimers, scheduledDelays>>

\* close() on the referenced sockets: the close event comes in a later turn.
ClosedByDisconnect ==
    [s \in SocketIds |->
        IF s \in {adminWebSocket, voterWebSocket} /\ sockets[s].state # "free"
        THEN [sockets[s] EXCEPT !.state = "closing"]
        ELSE sockets[s]]

disconnectWebSocket ==
    /\ sockets' = ClosedByDisconnect
    /\ adminWebSocket' = 0
    /\ voterWebSocket' = 0
    /\ wsReconnectAttempts' = 0
    /\ scheduledDelays' = <<>>

\* onopen of socket s (admin and voter handlers are the same).
OnOpen(s) ==
    /\ sockets[s].state = "connecting"
    /\ sockets' = [sockets EXCEPT ![s].state = "open"]
    /\ wsReconnectAttempts' = 0
    /\ scheduledDelays' = <<>>
    /\ UNCHANGED <<adminWebSocket, voterWebSocket, reconnectTimers, exhausted>>
    /\ UNCHANGED <<sessVars, asyncVars, uiVars>>
    /\ UNCHANGED <<msgVars, clockVars>>

\* onclose of socket s: the role's reference is cleared whichever socket it names.
OnClose(s) ==
    /\ sockets[s].state # "free"
    /\ sockets' = [sockets EXCEPT ![s] = FreeSocket]
    /\ IF sockets[s].role = "admin"
       THEN adminWebSocket' = 0 /\ UNCHANGED voterWebSocket
       ELSE voterWebSocket' = 0 /\ UNCHANGED adminWebSocket
    /\ attemptWebSocketReconnect(sockets[s].role)
    /\ UNCHANGED <<sessVars, asyncVars, uiVars>>
    /\ UNCHANGED <<msgVars, clockVars>>

\* The timeout set by attemptWebSocketReconnect fires.
ReconnectTimerFires(i) ==
    /\ i \in 1..Len(reconnectTimers)
    /\ reconnectTimers' = RemoveAt(reconnectTimers, i)
    /\ IF reconnectTimers[i].type = "admin" /\ isAdmin
       THEN connectAdminWebSocket
       ELSE IF reconnectTimers[i].type = "voter" /\ currentUser # NoUser
            THEN connectVoterWebSocket
            ELSE UNCHANGED <<sockets, adminWebSocket, voterWebSocket>>
    /\ UNCHANGED <<wsReconnectAttempts, scheduledDelays, exhausted>>
    /\ UNCHANGED <<sessVars, asyncVars, uiVars>>
    /\ UNCHANGED <<msgVars, clockVars>>

\* ---------------------------------------------------------------------
\* Screens and logout
\* ---------------------------------------------------------------------
\* notifications.show(): one more toast in the container (kept up to MaxToasts).
show(ts, kind, type) ==
    IF Len(ts) < MaxToasts THEN Append(ts, [kind |-> kind, type |-> type]) ELSE ts

\* The auto-remove timeout of the oldest toast fires.
NotificationHide ==
    /\ toasts # <<>>
    /\ toasts' = Tail(toasts)
    /\ UNCHANGED <<envVars, modalVars, choiceVars, traceVars, refreshVars, now, lastNotifications, activityLog, reloadRequests, expiredSeen,
                 afterBadFrame, unknownFrames>>
    /\ UNCHANGED clockVars
    /\ UNCHANGED <<sessVars, connVars, asyncVars, uiVars>>

showScreen(screenId) == screen' = screenId

stopMonitoring(iv) == [iv EXCEPT !["monitoringInterval"] = FALSE]

stopUsersRefreshInterval(iv) == [iv EXCEPT !["usersRefreshInterval"] = FALSE]

logout ==
    /\ storage' = clearTokens
    /\ disconnectWebSocket
    /\ adminToken' = FALSE
    /\ voterToken' = FALSE
    /\ currentUser' = NoUser
    /\ isAdmin' = FALSE
    /\ intervals' = stopUsersRefreshInterval(stopMonitoring(intervals))
    /\ showScreen("welcome-screen")
    /\ toasts' = show(toasts, "logout", "info")
    /\ UNCHANGED <<reconnectTimers, exhausted, restorePc, inflight, liveModal>>
    /\ UNCHANGED <<envVars, modalVars, choiceVars, traceVars, refreshVars, now, lastNotifications, activityLog, reloadRequests, expiredSeen,
                 afterBadFrame, unknownFrames>>
    /\ UNCHANGED clockVars

\* The logout button (hidden on the welcome screen).
LogoutClick ==
    /\ screen # "welcome-screen"
    /\ logout
    /\ UNCHANGED timeouts

\* The timeout of the force_disconnect message fires: logout().
ForceLogoutTimer ==
    /\ timeouts["forceLogout"] > 0
    /\ \E t \in AfterFire("forceLogout") : timeouts' = t
    /\ logout

\* ---------------------------------------------------------------------
\* Page load, reload and session restore
\* ---------------------------------------------------------------------
\* window.location.reload(): the script state starts over, localStorage stays;
\* the old page's sockets and timers go away without running any handler.
ReloadPage ==
    /\ adminToken' = FALSE
    /\ voterToken' = FALSE
    /\ currentUser' = NoUser
    /\ isAdmin' = FALSE
    /\ screen' = "welcome-screen"
    /\ adminWebSocket' = 0
    /\ voterWebSocket' = 0
    /\ sockets' = [s \in SocketIds |-> FreeSocket]
    /\ wsReconnectAttempts' = 0
    /\ reconnectTimers' = <<>>
    /\ scheduledDelays' = <<>>
    /\ exhausted' = FALSE
    /\ restorePc' = "start"
    /\ inflight' = [k \in RequestKinds |-> 0]
    /\ timeouts' = [k \in TimeoutKinds |-> 0]
    /\ intervals' = [n \in IntervalNames |-> FALSE]
    /\ liveModal' = FALSE
    /\ lastNotifications' = [q \in QuestionIds |-> 0]
    /\ activityLog' = <<>>
    /\ toasts' = <<>>
    /\ reloadRequests' = [k \in AdminMessageKinds |-> 0]
    /\ expiredSeen' = [q \in QuestionIds |-> <<>>]
    /\ questionTimers' = NoTimers
    /\ timers' = NoTimers
    /\ timersInDocument' = FALSE
    /\ votingCards' = FALSE
    /\ agotado' = {}
    /\ expireRefreshes' = [q \in QuestionIds |-> 0]
    /\ afterBadFrame' = "none"
    /\ unknownFrames' = FALSE
    /\ UNCHANGED <<storage, now, constructorThrows>>
    /\ observed' = {}
    /\ delivered' = [s \in SocketIds |-> <<>>]
    /\ dispatched' = [s \in SocketIds |-> <<>>]
    /\ reloadTimers' = 0
    /\ loadActiveQuestionsTimeout' = 0
    /\ activeFetches' = 0
    /\ aforoTimers' = 0
    /\ aforoFetches' = 0
    /\ container' = {}
    /\ activeModal' = 0
    /\ modalsCreated' = 0
    /\ hideTimers' = <<>>
    /\ powerPromises' = <<>>
    /\ powerResolveCallback' = NoCallback
    /\ powerTimeouts' = {}
    /\ maxSelections' = 1
    /\ allowMultiple' = FALSE
    /\ selected' = {}
    /\ submitDisabled' = TRUE

\* The user reloads the page.
UserReload ==
    /\ restorePc # "start"
    /\ ReloadPage

\* The timeout of system_reset (or of a failed resetDatabase) fires.
ReloadTimer ==
    /\ timeouts["reload"] > 0
    /\ ReloadPage

\* showAdminScreen() up to its first await (loadAdminData).
showAdminScreen ==
    /\ showScreen("admin-screen")
    /\ connectWebSocket(TRUE, currentUser)

\* showVoterScreen() for a current user that is set.
showVoterScreen(user) ==
    /\ showScreen("voter-screen")
    /\ IF user # CODIGO_PRUEBA
       THEN connectWebSocket(FALSE, user)
       ELSE UNCHANGED <<sockets, adminWebSocket, voterWebSocket>>

\* DOMContentLoaded: tryRestoreAdminSession() up to its await.
TryRestoreStart ==
    /\ restorePc = "start"
    /\ IF storage.admin_token
       THEN adminToken' = TRUE /\ isAdmin' = TRUE /\ restorePc' = "await"
       ELSE UNCHANGED <<adminToken, isAdmin>> /\ restorePc' = "done"
    /\ UNCHANGED <<voterToken, currentUser, storage, screen, inflight, timeouts>>
    /\ UNCHANGED <<connVars, uiVars>>
    /\ UNCHANGED <<msgVars, clockVars>>

\* The token is still valid: the admin screen is shown.
TryRestoreOk ==
    /\ restorePc = "await"
    /\ restorePc' = "done"
    /\ showAdminScreen
    /\ timeouts' = Schedule(timeouts, "adminData")
    /\ UNCHANGED <<adminToken, voterToken, currentUser, isAdmin, storage, inflight>>
    /\ UNCHANGED <<wsReconnectAttempts, reconnectTimers, scheduledDelays, exhausted>>
    /\ UNCHANGED uiVars
    /\ UNCHANGED <<msgVars, clockVars>>

\* The token was rejected.
TryRestoreFail ==
    /\ restorePc = "await"
    /\ restorePc' = "done"
    /\ storage' = clearTokens
    /\ adminToken' = FALSE
    /\ isAdmin' = FALSE
    /\ UNCHANGED <<voterToken, currentUser, screen, inflight, timeouts>>
    /\ UNCHANGED <<connVars, uiVars>>
    /\ UNCHANGED <<msgVars, clockVars>>

\* ---------------------------------------------------------------------
\* Access: the buttons of the welcome screen
\* ---------------------------------------------------------------------
\* A handler of the welcome screen sends its request and awaits the response.
SendRequest(kind) ==
    /\ restorePc # "start"
    /\ screen = "welcome-screen"
    /\ InFlightTotal < MaxInFlight
    /\ inflight' = [inflight EXCEPT ![kind] = @ + 1]
    /\ UNCHANGED <<restorePc, timeouts>>
    /\ UNCHANGED <<sessVars, connVars, uiVars>>
    /\ UNCHANGED <<msgVars, clockVars>>

Received(kind) ==
    /\ inflight[kind] > 0
    /\ inflight' = [inflight EXCEPT ![kind] = @ - 1]

\* A request is rejected: an error toast, no state is changed.
RequestFails(kind) ==
    /\ kind \in {"adminLogin", "voterLogin", "demoLogin", "register"}
    /\ Received(kind)
    /\ UNCHANGED <<restorePc, timeouts>>
    /\ UNCHANGED <<sessVars, connVars, uiVars>>
    /\ UNCHANGED <<msgVars, clockVars>>

validateAdminCredentials == SendRequest("adminLogin")

\* /auth/login/admin answered: the admin Session starts.
AdminLoginOk ==
    /\ Received("adminLogin")
    /\ adminToken' = TRUE
    /\ storage' = saveToken(storage, "admin_token")
    /\ isAdmin' = TRUE
    /\ liveModal' = FALSE
    /\ showAdminScreen
    /\ timeouts' = Schedule(timeouts, "adminData")
    /\ exhausted' = FALSE
    /\ UNCHANGED <<voterToken, currentUser, restorePc, intervals>>
    /\ UNCHANGED <<wsReconnectAttempts, reconnectTimers, scheduledDelays>>
    /\ UNCHANGED <<msgVars, clockVars>>

\* accessVoting() with a well-formed code that is not the demo code.
accessVoting == SendRequest("voterLogin")

\* /auth/login/voter answered: the voter Session starts.
AccessVotingOk ==
    /\ Received("voterLogin")
    /\ voterToken' = TRUE
    /\ storage' = saveToken(storage, "voter_token")
    /\ currentUser' = RealCode
    /\ isAdmin' = FALSE
    /\ intervals' = [intervals EXCEPT !["timerInterval"] = FALSE]
    /\ showVoterScreen(RealCode)
    /\ timeouts' = Schedule(timeouts, "loadQuestions")
    /\ exhausted' = FALSE
    /\ UNCHANGED <<adminToken, restorePc, liveModal>>
    /\ UNCHANGED <<wsReconnectAttempts, reconnectTimers, scheduledDelays>>
    /\ UNCHANGED <<msgVars, clockVars>>

\* accessVoting() with the demo code: validateTestUserAdmin() sends the request.
validateTestUserAdmin == SendRequest("demoLogin")

\* The admin credentials were accepted: demo mode, no token, no channel.
DemoLoginOk ==
    /\ Received("demoLogin")
    /\ liveModal' = FALSE
    /\ currentUser' = CODIGO_PRUEBA
    /\ isAdmin' = FALSE
    /\ showScreen("voter-screen")
    /\ exhausted' = FALSE
    /\ timeouts' = Schedule(timeouts, "demoQuestions")
    /\ UNCHANGED <<adminToken, voterToken, storage, restorePc, intervals>>
    /\ UNCHANGED <<adminWebSocket, voterWebSocket, sockets, wsReconnectAttempts,
                   reconnectTimers, scheduledDelays>>
    /\ UNCHANGED <<msgVars, clockVars>>

\* registerAttendance() with a well-formed code that is not the demo code.
registerAttendance == SendRequest("register")

\* processDirectRegistration(): /auth/register-attendance answered.
processDirectRegistration ==
    /\ Received("register")
    /\ currentUser' = RealCode
    /\ UNCHANGED <<adminToken, voterToken, isAdmin, storage, screen, restorePc, timeouts>>
    /\ UNCHANGED <<connVars, uiVars>>
    /\ UNCHANGED <<msgVars, clockVars>>

\* ---------------------------------------------------------------------
\* Access codes typed into a form
\* ---------------------------------------------------------------------
Digits == {"0", "1", "2", "3", "4", "5", "6", "7", "8", "9"}

RECURSIVE trimStart(_)
trimStart(v) == IF v # <<>> /\ Head(v) = " " THEN trimStart(Tail(v)) ELSE v

RECURSIVE trimEnd(_)
trimEnd(v) ==
    IF v # <<>> /\ v[Len(v)] = " " THEN trimEnd(SubSeq(v, 1, Len(v) - 1)) ELSE v

\* String.prototype.trim().
trim(v) == trimEnd(trimStart(v))

\* String.prototype.toUpperCase() on the characters used here.
toUpperCase(v) ==
    [i \in 1..Len(v) |-> CASE v[i] = "a" -> "A" [] v[i] = "b" -> "B" [] v[i] = "c" -> "C"
                            [] OTHER -> v[i]]

\* The pattern without its anchors: \d+-\d+ found anywhere in the code.
validateCode_unanchored(code) ==
    \E i \in 2..(Len(code) - 1) :
        code[i] = "-" /\ code[i - 1] \in Digits /\ code[i + 1] \in Digits

\* Utils.validateCode(): /^\d+-\d+$/.test(code).
validateCode(code) ==
    \E i \in 2..(Len(code) - 1) :
        /\ code[i] = "-"
        /\ \A j \in 1..Len(code) : j # i => code[j] \in Digits

\* What the user has typed into the code field.
InputValues ==
    { <<>>, <<" ">>, <<"a", "b", "c">>, <<"1", "-", "2", "0", "1">>,
      <<" ", "1", "-", "2", "0", "1", " ">>, <<"1", "-">>, <<"-", "2", "0", "1">>,
      <<"1", "2", "0", "1">>, <<"1", "-", "2", "-", "3">>, <<"a", "-", "1">>,
      <<"1", "-", "a">>, <<"1", "-", "-", "2">>, <<"1", " ", "-", "2">>,
      <<"1", "2", "-", "3", "4">>, <<"a", "1", "-", "2">>, <<"1", "-", "2", "b">> }

FormHandlers == {"registerAttendance", "accessVoting", "processDeleteCode"}

\* processDeleteCode() with a well-formed code: DELETE /admin/delete-code.
sendDeleteCode ==
    /\ inflight["deleteCode"] < MaxInFlight
    /\ inflight' = [inflight EXCEPT !["deleteCode"] = @ + 1]
    /\ UNCHANGED <<restorePc, timeouts>>
    /\ UNCHANGED <<sessVars, connVars, uiVars>>
    /\ UNCHANGED <<msgVars, clockVars>>

\* The delete request is answered: a toast either way.
DeleteCodeDone(ok) ==
    /\ Received("deleteCode")
    /\ toasts' = show(toasts, "deleteCode", IF ok THEN "success" ELSE "error")
    /\ UNCHANGED <<envVars, modalVars, choiceVars, traceVars, refreshVars, now, lastNotifications, activityLog,
                   reloadRequests, expiredSeen, afterBadFrame, unknownFrames>>
    /\ UNCHANGED <<restorePc, timeouts>>
    /\ UNCHANGED <<sessVars, connVars, uiVars, clockVars>>

\* registerAttendance(), accessVoting() and processDeleteCode() as clicked with
\* value in their code field: the format test first, then the handler.
codeEntered(fn, value) ==
    /\ restorePc # "start"
    /\ screen = IF fn = "processDeleteCode" THEN "admin-screen" ELSE "welcome-screen"
    /\ LET code == toUpperCase(trim(value)) IN
         IF code = <<>> \/ ~validateCode(code)
         THEN /\ toasts' = show(toasts, "invalidCode", "error")
              /\ UNCHANGED <<envVars, modalVars, choiceVars, traceVars, refreshVars, now, lastNotifications,
                             activityLog, reloadRequests, expiredSeen, afterBadFrame,
                             unknownFrames>>
              /\ UNCHANGED <<sessVars, connVars, asyncVars, uiVars, clockVars>>
         ELSE CASE fn = "registerAttendance" -> registerAttendance
                [] fn = "accessVoting" -> accessVoting
                [] fn = "processDeleteCode" -> sendDeleteCode

\* ---------------------------------------------------------------------
\* resetDatabase (admin screen)
\* ---------------------------------------------------------------------
resetDatabase ==
    /\ screen = "admin-screen"
    /\ InFlightTotal < MaxInFlight
    /\ inflight' = [inflight EXCEPT !["reset"] = @ + 1]
    /\ UNCHANGED <<restorePc, timeouts>>
    /\ UNCHANGED <<sessVars, connVars, uiVars>>
    /\ UNCHANGED <<msgVars, clockVars>>

ResetOk ==
    /\ Received("reset")
    /\ storage' = clearTokens
    /\ adminToken' = FALSE
    /\ voterToken' = FALSE
    /\ currentUser' = NoUser
    /\ isAdmin' = FALSE
    /\ liveModal' = FALSE
    /\ timeouts' = Schedule(timeouts, "welcome")
    /\ UNCHANGED <<screen, restorePc, intervals>>
    /\ UNCHANGED connVars
    /\ UNCHANGED <<msgVars, clockVars>>

ResetFail ==
    /\ Received("reset")
    /\ timeouts' = Schedule(timeouts, "reload")
    /\ UNCHANGED restorePc
    /\ UNCHANGED <<sessVars, connVars, uiVars>>
    /\ UNCHANGED <<msgVars, clockVars>>

\* The timeout of resetDatabase fires: showScreen('welcome-screen').
WelcomeTimer ==
    /\ timeouts["welcome"] > 0
    /\ \E t \in AfterFire("welcome") : timeouts' = t
    /\ showScreen("welcome-screen")
    /\ UNCHANGED <<adminToken, voterToken, currentUser, isAdmin, storage>>
    /\ UNCHANGED <<restorePc, inflight>>
    /\ UNCHANGED <<connVars, uiVars>>
    /\ UNCHANGED <<msgVars, clockVars>>

\* ---------------------------------------------------------------------
\* Voter channel: the message router
\* ---------------------------------------------------------------------
RefreshKinds == {"new_question", "question_status_changed", "question_deleted",
                 "time_extended"}

\* The kinds the voter router has a case for.
VoterKinds == RefreshKinds \cup {"admin_message", "system_reset", "force_disconnect"}

\* A type neither router has a case for.
UnknownKind == "heartbeat"

\* History of an observed socket: the frame the transport hands to onmessage
\* and, when JSON.parse accepts it, the message onmessage hands to the router.
Frame(type, form) == [type |-> type, form |-> form]

Transport(s, frame) ==
    /\ IF s \in observed /\ Len(delivered[s]) < MaxFrames
       THEN /\ delivered' = [delivered EXCEPT ![s] = Append(@, frame)]
            /\ dispatched' = IF frame.form = "malformed"
                             THEN dispatched
                             ELSE [dispatched EXCEPT ![s] = Append(@, frame)]
       ELSE UNCHANGED <<delivered, dispatched>>
    /\ UNCHANGED observed

\* The recording of the open sockets of a session starts, with nothing yet
\* in the activity log.
StartTrace ==
    /\ observed = {}
    /\ activityLog = <<>>
    /\ \E s \in SocketIds : sockets[s].state = "open"
    /\ observed' = {s \in SocketIds : sockets[s].state = "open"}
    /\ UNCHANGED <<delivered, dispatched>>
    /\ UNCHANGED <<now, lastNotifications, activityLog, toasts, reloadRequests, expiredSeen,
                   afterBadFrame, unknownFrames, envVars, modalVars, choiceVars, refreshVars>>
    /\ UNCHANGED <<sessVars, connVars, asyncVars, uiVars, clockVars>>

\* History of the frames a router received.
Delivered(type, kinds) ==
    /\ afterBadFrame' = IF afterBadFrame = "dropped" THEN "dispatched" ELSE afterBadFrame
    /\ unknownFrames' = (unknownFrames \/ type \notin kinds)

\* The router with a default case that refreshes the question list.
handleVoterWebSocketMessage_defaultRefresh(type) ==
    CASE type = "system_reset" -> timeouts' = Schedule(timeouts, "reload")
      [] type = "force_disconnect" -> timeouts' = Schedule(timeouts, "forceLogout")
      [] OTHER -> timeouts' = Schedule(timeouts, "loadQuestions")

handleVoterWebSocketMessage(type) ==
    CASE type \in RefreshKinds -> timeouts' = Schedule(timeouts, "loadQuestions")
      [] type = "system_reset" -> timeouts' = Schedule(timeouts, "reload")
      [] type = "force_disconnect" -> timeouts' = Schedule(timeouts, "forceLogout")
      [] OTHER -> UNCHANGED timeouts

\* onmessage of an open voter socket.
OnVoterMessage(s, type) ==
    /\ sockets[s].state = "open"
    /\ sockets[s].role = "voter"
    /\ handleVoterWebSocketMessage(type)
    /\ Delivered(type, VoterKinds)
    /\ Transport(s, Frame(type, "valid"))
    /\ UNCHANGED <<restorePc, inflight>>
    /\ UNCHANGED <<sessVars, connVars, uiVars>>
    /\ UNCHANGED <<envVars, modalVars, choiceVars, refreshVars, now, lastNotifications, activityLog, toasts,
                   reloadRequests, expiredSeen>>
    /\ UNCHANGED clockVars

\* Frames the voter callback cannot handle: text that is not JSON, or a message
\* of a recognized type without its data field (system_reset reads no data).
VoterBadFrames == {"malformed", "admin_message", "force_disconnect"} \cup RefreshKinds

\* The router reading a missing data field as if it were there.
handleVoterBadFrame_dataOptional(frame) ==
    IF frame = "malformed" THEN UNCHANGED timeouts ELSE handleVoterWebSocketMessage(frame)

\* What the router has done when the missing data field makes it throw: the
\* refresh kinds have called loadVotingQuestions(), the others nothing.
handleVoterBadFrame(frame) ==
    IF frame \in RefreshKinds
    THEN timeouts' = Schedule(timeouts, "loadQuestions")
    ELSE UNCHANGED timeouts

\* onmessage of an open voter socket with a frame it cannot handle: the error
\* is caught and logged.
OnVoterBadFrame(s, frame) ==
    /\ sockets[s].state = "open"
    /\ sockets[s].role = "voter"
    /\ handleVoterBadFrame(frame)
    /\ afterBadFrame' = "dropped"
    /\ Transport(s, IF frame = "malformed" THEN Frame("", "malformed")
                                          ELSE Frame(frame, "nodata"))
    /\ UNCHANGED <<restorePc, inflight>>
    /\ UNCHANGED <<sessVars, connVars, uiVars>>
    /\ UNCHANGED <<envVars, modalVars, choiceVars, refreshVars, now, lastNotifications, activityLog, toasts,
                   reloadRequests, expiredSeen, unknownFrames>>
    /\ UNCHANGED clockVars

\* ---------------------------------------------------------------------
\* Voter screen: question list and countdown clock
\* ---------------------------------------------------------------------
\* renderVotingQuestions(): the container gets new elements, qs[q] the
\* time_remaining_seconds of question q (NoTimer: no countdown), and the
\* timeout of initializeVotingTimer is set when a question has time left.
renderVotingQuestions(t, qs) ==
    /\ questionTimers' = qs
    /\ timersInDocument' = FALSE
    /\ votingCards' = TRUE
    /\ agotado' = {}
    /\ expireRefreshes' = [q \in QuestionIds |-> 0]
    /\ timeouts' = IF \E q \in QuestionIds : qs[q] > 0 THEN Schedule(t, "initTimer") ELSE t
    /\ UNCHANGED timers

\* container.innerHTML = a panel with a message: the cards are gone.
showPanel(t) ==
    /\ questionTimers' = NoTimers
    /\ timersInDocument' = FALSE
    /\ votingCards' = FALSE
    /\ agotado' = {}
    /\ expireRefreshes' = [q \in QuestionIds |-> 0]
    /\ timeouts' = t
    /\ UNCHANGED timers

\* A request that adds to a count that stands for "MaxInFlight or more".
Sent(f, kind) == [f EXCEPT ![kind] = Min(@ + 1, MaxInFlight)]

AfterResponse(kind) ==
    IF inflight[kind] = MaxInFlight
    THEN {inflight, [inflight EXCEPT ![kind] = @ - 1]}
    ELSE {[inflight EXCEPT ![kind] = @ - 1]}

\* loadVotingQuestions() up to its await, with t and f the pending timeouts
\* and requests it starts from.  With the demo code loadDemoVotingQuestions()
\* renders and returns nothing, renderVotingQuestions(undefined) throws and
\* the catch shows the error panel; no request is sent.
loadVotingQuestions(t, f) ==
    IF currentUser = CODIGO_PRUEBA \/ ~voterToken
    THEN /\ showPanel(t)
         /\ inflight' = f
    ELSE /\ inflight' = Sent(f, "questions")
         /\ timeouts' = t
         /\ UNCHANGED clockVars

\* A pending call of loadVotingQuestions() runs.
LoadQuestionsTimer ==
    /\ timeouts["loadQuestions"] > 0
    /\ \E t \in AfterFire("loadQuestions") : loadVotingQuestions(t, inflight)
    /\ UNCHANGED <<restorePc, intervals, liveModal>>
    /\ UNCHANGED <<sessVars, connVars, msgVars>>

\* The question list arrives: renderVotingQuestions(questions, votedQuestions).
QuestionsLoaded(qs) ==
    /\ inflight["questions"] > 0
    /\ \E f \in AfterResponse("questions") : inflight' = f
    /\ renderVotingQuestions(timeouts, qs)
    /\ UNCHANGED <<restorePc, intervals, liveModal>>
    /\ UNCHANGED <<sessVars, connVars, msgVars>>

\* The request for the question list fails: the error panel.
QuestionsFail ==
    /\ inflight["questions"] > 0
    /\ \E f \in AfterResponse("questions") : inflight' = f
    /\ showPanel(timeouts)
    /\ UNCHANGED <<restorePc, intervals, liveModal>>
    /\ UNCHANGED <<sessVars, connVars, msgVars>>

\* The timeout set by validateTestUserAdmin(): loadDemoVotingQuestions()
\* renders the demo questions, none of which has a countdown.
DemoQuestionsTimer ==
    /\ timeouts["demoQuestions"] > 0
    /\ \E t \in AfterFire("demoQuestions") : renderVotingQuestions(t, NoTimers)
    /\ UNCHANGED <<restorePc, inflight, intervals, liveModal>>
    /\ UNCHANGED <<sessVars, connVars, msgVars>>

\* initializeVotingTimer(): the countdowns in the document are collected and
\* the clock is started iff there is one.
initializeVotingTimer ==
    /\ timeouts["initTimer"] > 0
    /\ \E t \in AfterFire("initTimer") : timeouts' = t
    /\ timers' = questionTimers
    /\ timersInDocument' = TRUE
    /\ intervals' = [intervals EXCEPT !["timerInterval"] =
                        \E q \in QuestionIds : questionTimers[q] # NoTimer]
    /\ UNCHANGED <<questionTimers, votingCards, agotado, expireRefreshes>>
    /\ UNCHANGED <<restorePc, inflight, liveModal>>
    /\ UNCHANGED <<sessVars, connVars, msgVars>>

Active(ts) == {q \in QuestionIds : ts[q] > 0}
AtZero(ts) == {q \in QuestionIds : ts[q] = 0}
\* A tick that also lowers a countdown at 0.
Ticked_ge(ts) == [q \in QuestionIds |-> IF ts[q] >= 0 THEN ts[q] - 1 ELSE ts[q]]

Ticked(ts) == [q \in QuestionIds |-> IF ts[q] > 0 THEN ts[q] - 1 ELSE ts[q]]

\* One tick of window.timerInterval: every countdown above 0 goes down by 1,
\* every countdown at 0 reads "Tiempo agotado" and sets the timeout that
\* reloads both question lists, and the clock stops when none was above 0.
VotingTimerTick ==
    /\ intervals["timerInterval"]
    /\ timers' = Ticked(timers)
    /\ questionTimers' = IF timersInDocument THEN Ticked(timers) ELSE questionTimers
    /\ agotado' = IF timersInDocument THEN agotado \cup AtZero(timers) ELSE agotado
    /\ expireRefreshes' = [q \in QuestionIds |->
                              IF timers[q] = 0
                              THEN Min(expireRefreshes[q] + 1, MaxExpire)
                              ELSE expireRefreshes[q]]
    /\ timeouts' = IF AtZero(timers) # {}
                   THEN Schedule(Schedule(timeouts, "loadQuestions"), "loadActive")
                   ELSE timeouts
    /\ intervals' = [intervals EXCEPT !["timerInterval"] = Active(timers) # {}]
    /\ UNCHANGED <<timersInDocument, votingCards>>
    /\ UNCHANGED <<restorePc, inflight, liveModal>>
    /\ UNCHANGED <<sessVars, connVars, msgVars>>

\* voteYesNo() up to its await: the vote is posted.
voteYesNo ==
    /\ screen = "voter-screen"
    /\ votingCards
    /\ inflight["vote"] < MaxInFlight
    /\ inflight' = [inflight EXCEPT !["vote"] = @ + 1]
    /\ UNCHANGED <<restorePc, timeouts>>
    /\ UNCHANGED <<sessVars, connVars, uiVars, msgVars, clockVars>>

\* ---------------------------------------------------------------------
\* ModalSystem and the power question
\* ---------------------------------------------------------------------
\* ModalSystem.show(config): the new element is appended and becomes active.
ModalSystem_show ==
    /\ modalsCreated' = modalsCreated + 1
    /\ container' = container \cup {modalsCreated + 1}
    /\ activeModal' = modalsCreated + 1

\* ModalSystem.hide(): the pending timeouts after the call. The timeout is set
\* only for an active modal that is in the DOM; its closure reads
\* this.activeModal when it runs.
ModalSystem_hide ==
    IF activeModal # 0 /\ activeModal \in container
    THEN Append(hideTimers, activeModal)
    ELSE hideTimers

\* The timeout of hide() runs, 300 ms after the call.
HideTimeout ==
    /\ hideTimers # <<>>
    /\ hideTimers' = Tail(hideTimers)
    /\ container' = IF activeModal # 0 /\ activeModal \in container
                    THEN container \ {activeModal}
                    ELSE container
    /\ activeModal' = 0
    /\ UNCHANGED <<modalsCreated, powerPromises, powerResolveCallback, powerTimeouts>>
    /\ UNCHANGED <<envVars, choiceVars, traceVars, refreshVars, now, lastNotifications,
                   activityLog, toasts, reloadRequests, expiredSeen, afterBadFrame,
                   unknownFrames>>
    /\ UNCHANGED <<sessVars, connVars, asyncVars, uiVars, clockVars>>

\* showAdminLogin(): the login modal is shown over the welcome screen.
showAdminLogin ==
    /\ restorePc # "start"
    /\ screen = "welcome-screen"
    /\ modalsCreated < MaxModals
    /\ ModalSystem_show
    /\ UNCHANGED <<hideTimers, powerPromises, powerResolveCallback, powerTimeouts>>
    /\ UNCHANGED <<envVars, choiceVars, traceVars, refreshVars, now, lastNotifications,
                   activityLog, toasts, reloadRequests, expiredSeen, afterBadFrame,
                   unknownFrames>>
    /\ UNCHANGED <<sessVars, connVars, asyncVars, uiVars, clockVars>>

\* Escape, a click on the overlay, or a button whose handler is modals.hide().
modalsHide ==
    /\ activeModal # 0
    /\ Len(hideTimers) < MaxHideTimers
    /\ hideTimers' = ModalSystem_hide
    /\ UNCHANGED <<container, activeModal, modalsCreated, powerPromises,
                   powerResolveCallback, powerTimeouts>>
    /\ UNCHANGED <<envVars, choiceVars, traceVars, refreshVars, now, lastNotifications,
                   activityLog, toasts, reloadRequests, expiredSeen, afterBadFrame,
                   unknownFrames>>
    /\ UNCHANGED <<sessVars, connVars, asyncVars, uiVars, clockVars>>

\* The functions window.powerResolveCallback is compared with: the arrow
\* function showPowerQuestion() stores, and the resolve of its promise.
Wrapper(i) == [fn |-> "powerResolveCallback", promise |-> i]
Resolve(i) == [fn |-> "resolve", promise |-> i]
BoolText(b) == IF b THEN "true" ELSE "false"

\* resolve(isPower) of promise i; a settled promise keeps its value.
Resolved(ps, i, isPower) ==
    IF ps[i].state = "pending" THEN [ps EXCEPT ![i].state = BoolText(isPower)] ELSE ps

\* processDirectRegistration() resumes after its await: the registration is sent.
Resumed(ps, i) == IF ps[i].state = "pending" THEN Sent(inflight, "register") ELSE inflight

\* processDirectRegistration() up to its await: showPowerQuestion().
showPowerQuestion ==
    /\ restorePc # "start"
    /\ screen = "welcome-screen"
    /\ Len(powerPromises) < MaxPromises
    /\ modalsCreated < MaxModals
    /\ LET i == Len(powerPromises) + 1
           prev == powerResolveCallback.promise
           cleaned == IF powerResolveCallback # NoCallback
                      THEN Resolved(powerPromises, prev, FALSE)
                      ELSE powerPromises
       IN /\ powerPromises' = Append(cleaned, [state |-> "pending", modal |-> modalsCreated + 1])
          /\ inflight' = IF powerResolveCallback # NoCallback
                         THEN Resumed(powerPromises, prev)
                         ELSE inflight
          /\ hideTimers' = IF powerResolveCallback # NoCallback
                           THEN ModalSystem_hide
                           ELSE hideTimers
          /\ powerResolveCallback' = Wrapper(i)
          /\ powerTimeouts' = powerTimeouts \cup {i}
    /\ ModalSystem_show
    /\ UNCHANGED <<restorePc, timeouts>>
    /\ UNCHANGED <<envVars, choiceVars, traceVars, refreshVars, now, lastNotifications,
                   activityLog, toasts, reloadRequests, expiredSeen, afterBadFrame,
                   unknownFrames>>
    /\ UNCHANGED <<sessVars, connVars, uiVars, clockVars>>

\* window.modalResolvePower(isPower): a button of a power modal in the DOM.
modalResolvePower(isPower) ==
    /\ \E i \in 1..Len(powerPromises) : powerPromises[i].modal \in container
    /\ IF powerResolveCallback # NoCallback
       THEN LET i == powerResolveCallback.promise
            IN /\ powerResolveCallback' = NoCallback
               /\ hideTimers' = ModalSystem_hide
               /\ powerPromises' = Resolved(powerPromises, i, isPower)
               /\ inflight' = Resumed(powerPromises, i)
       ELSE UNCHANGED <<powerResolveCallback, hideTimers, powerPromises, inflight>>
    /\ UNCHANGED <<container, activeModal, modalsCreated, powerTimeouts>>
    /\ UNCHANGED <<restorePc, timeouts>>
    /\ UNCHANGED <<envVars, choiceVars, traceVars, refreshVars, now, lastNotifications,
                   activityLog, toasts, reloadRequests, expiredSeen, afterBadFrame,
                   unknownFrames>>
    /\ UNCHANGED <<sessVars, connVars, uiVars, clockVars>>

\* The 60 s timeout of showPowerQuestion() for promise i runs.
PowerTimeout(i) ==
    /\ i \in powerTimeouts
    /\ powerTimeouts' = powerTimeouts \ {i}
    /\ IF powerResolveCallback = Resolve(i)
       THEN /\ powerResolveCallback' = NoCallback
            /\ hideTimers' = ModalSystem_hide
            /\ powerPromises' = Resolved(powerPromises, i, FALSE)
            /\ inflight' = Resumed(powerPromises, i)
            /\ toasts' = show(toasts, "Tiempo agotado", "warning")
       ELSE UNCHANGED <<powerResolveCallback, hideTimers, powerPromises, inflight, toasts>>
    /\ UNCHANGED <<container, activeModal, modalsCreated>>
    /\ UNCHANGED <<restorePc, timeouts>>
    /\ UNCHANGED <<envVars, choiceVars, traceVars, refreshVars, now, lastNotifications,
                   activityLog, reloadRequests, expiredSeen, afterBadFrame,
                   unknownFrames>>
    /\ UNCHANGED <<sessVars, connVars, uiVars, clockVars>>

\* submitMultipleVote() with an option selected: the demo code gets its toast,
\* any other user posts the vote.
submitMultipleVote ==
    /\ screen = "voter-screen"
    /\ votingCards
    /\ IF currentUser = CODIGO_PRUEBA
       THEN /\ toasts' = show(toasts, "demoVote", "success")
            /\ UNCHANGED inflight
       ELSE /\ inflight["vote"] < MaxInFlight
            /\ inflight' = [inflight EXCEPT !["vote"] = @ + 1]
            /\ UNCHANGED toasts
    /\ UNCHANGED <<envVars, modalVars, choiceVars, traceVars, refreshVars, now, lastNotifications, activityLog, reloadRequests, expiredSeen,
                 afterBadFrame, unknownFrames>>
    /\ UNCHANGED <<restorePc, timeouts>>
    /\ UNCHANGED <<sessVars, connVars, uiVars, clockVars>>

\* ---------------------------------------------------------------------
\* The multiple-choice card
\* ---------------------------------------------------------------------
Options == 1..MaxOptions

\* The multiple-choice questions the server may send.
MultipleQuestions ==
    [allow_multiple : BOOLEAN, max_selections : 0..MaxOptions]

\* createMultipleVoting(): isMultiple.
isMultiple(question) == question.allow_multiple /\ question.max_selections > 1

\* The card of a multiple-choice question is rendered into the voter screen:
\* no option selected, the submit button disabled.
createMultipleVoting(question) ==
    /\ screen = "voter-screen"
    /\ votingCards
    /\ maxSelections' = question.max_selections
    /\ allowMultiple' = isMultiple(question)
    /\ selected' = {}
    /\ submitDisabled' = TRUE
    /\ UNCHANGED <<envVars, modalVars, traceVars, refreshVars, now, lastNotifications,
                   activityLog, toasts, reloadRequests, expiredSeen, afterBadFrame,
                   unknownFrames>>
    /\ UNCHANGED <<sessVars, connVars, asyncVars, uiVars, clockVars>>

\* The limit test that lets one selection too many through.
AtLimit_gt(n, max) == n > max

\* selectMultipleOption(): selectedOptions.length >= maxSelections.
AtLimit(n, max) == n >= max

\* selectMultipleOption(element, questionId, maxSelections, allowMultiple).
selectMultipleOption(element) ==
    /\ screen = "voter-screen"
    /\ votingCards
    /\ IF allowMultiple
       THEN IF element \notin selected /\ AtLimit(Cardinality(selected), maxSelections)
            THEN /\ toasts' = show(toasts, "maxSelections", "error")
                 /\ UNCHANGED <<selected, submitDisabled>>
            ELSE LET nowSelected == IF element \in selected
                                    THEN selected \ {element}
                                    ELSE selected \cup {element}
                 IN /\ selected' = nowSelected
                    /\ submitDisabled' = ~(Cardinality(nowSelected) > 0)
                    /\ UNCHANGED toasts
       ELSE /\ selected' = {element}
            /\ submitDisabled' = FALSE
            /\ UNCHANGED toasts
    /\ UNCHANGED <<maxSelections, allowMultiple>>
    /\ UNCHANGED <<envVars, modalVars, traceVars, refreshVars, now, lastNotifications,
                   activityLog, reloadRequests, expiredSeen, afterBadFrame,
                   unknownFrames>>
    /\ UNCHANGED <<sessVars, connVars, asyncVars, uiVars, clockVars>>

\* submitMultipleVote(questionId) as called on the card: with no option
\* selected it shows its toast and returns.
submitMultipleVoteCall ==
    IF Cardinality(selected) = 0
    THEN /\ screen = "voter-screen"
         /\ votingCards
         /\ toasts' = show(toasts, "noSelection", "error")
         /\ UNCHANGED <<envVars, modalVars, choiceVars, traceVars, refreshVars, now,
                        lastNotifications, activityLog, reloadRequests, expiredSeen,
                        afterBadFrame, unknownFrames>>
         /\ UNCHANGED <<sessVars, connVars, asyncVars, uiVars, clockVars>>
    ELSE submitMultipleVote

\* /voting/vote answered: the toast and loadVotingQuestions().
VoteOk ==
    /\ inflight["vote"] > 0
    /\ loadVotingQuestions(timeouts, [inflight EXCEPT !["vote"] = @ - 1])
    /\ toasts' = show(toasts, "vote", "success")
    /\ UNCHANGED <<envVars, modalVars, choiceVars, traceVars, refreshVars, now, lastNotifications, activityLog, reloadRequests, expiredSeen,
                 afterBadFrame, unknownFrames>>
    /\ UNCHANGED <<restorePc, intervals, liveModal>>
    /\ UNCHANGED <<sessVars, connVars>>

\* The detail the server gives when it rejects a vote.
RejectionDetails == {"Ya has votado en esta pregunta", "La votación está cerrada"}

\* The text of the toast of a rejected vote: `Error: ${error.message}`.
voteErrorText(detail) == "Error: " \o detail

\* /voting/vote rejected with detail: the error toast.
VoteFails(detail) ==
    /\ inflight["vote"] > 0
    /\ inflight' = [inflight EXCEPT !["vote"] = @ - 1]
    /\ toasts' = show(toasts, voteErrorText(detail), "error")
    /\ UNCHANGED <<envVars, modalVars, choiceVars, traceVars, refreshVars, now, lastNotifications, activityLog, reloadRequests, expiredSeen,
                 afterBadFrame, unknownFrames>>
    /\ UNCHANGED <<restorePc, timeouts>>
    /\ UNCHANGED <<sessVars, connVars, uiVars, clockVars>>

\* ---------------------------------------------------------------------
\* Admin screen: data load and polling intervals
\* ---------------------------------------------------------------------
startUsersRefreshInterval(iv) == [iv EXCEPT !["usersRefreshInterval"] = TRUE]

startMonitoring(iv) == [iv EXCEPT !["monitoringInterval"] = TRUE]

startAdminTimers(iv) == [iv EXCEPT !["adminTimerInterval"] = TRUE]

\* loadAdminData() resumes after its requests: loadActiveQuestions() and
\* startUsersRefreshInterval(); showAdminScreen then awaits the conjunto name.
loadAdminData ==
    /\ timeouts["adminData"] > 0
    /\ \E t \in AfterFire("adminData") :
          timeouts' = Schedule(Schedule(t, "loadActive"), "nombre")
    /\ intervals' = startUsersRefreshInterval(intervals)
    /\ UNCHANGED <<restorePc, inflight, liveModal>>
    /\ UNCHANGED <<sessVars, connVars>>
    /\ UNCHANGED <<msgVars, clockVars>>

\* showAdminScreen() resumes after the conjunto name: startMonitoring().
ShowAdminScreenEnd ==
    /\ timeouts["nombre"] > 0
    /\ \E t \in AfterFire("nombre") : timeouts' = t
    /\ intervals' = startMonitoring(intervals)
    /\ UNCHANGED <<restorePc, inflight, liveModal>>
    /\ UNCHANGED <<sessVars, connVars>>
    /\ UNCHANGED <<msgVars, clockVars>>

\* A pending loadActiveQuestions() completes: startAdminTimers() on success.
loadActiveQuestions(ok) ==
    /\ timeouts["loadActive"] > 0
    /\ \E t \in AfterFire("loadActive") : timeouts' = t
    /\ intervals' = IF ok THEN startAdminTimers(intervals) ELSE intervals
    /\ UNCHANGED <<restorePc, inflight, liveModal>>
    /\ UNCHANGED <<sessVars, connVars>>
    /\ UNCHANGED <<msgVars, clockVars>>

\* viewVotingResults(): the results modal and its polling interval.
viewVotingResults ==
    /\ screen = "admin-screen"
    /\ liveModal' = TRUE
    /\ intervals' = [intervals EXCEPT !["liveUpdateInterval"] = TRUE]
    /\ UNCHANGED asyncVars
    /\ UNCHANGED <<sessVars, connVars>>
    /\ UNCHANGED <<msgVars, clockVars>>

\* The modal is closed by its button: modals.hide().
HideModal ==
    /\ liveModal
    /\ liveModal' = FALSE
    /\ UNCHANGED <<intervals, asyncVars>>
    /\ UNCHANGED <<sessVars, connVars>>
    /\ UNCHANGED <<msgVars, clockVars>>

\* One tick of liveUpdateInterval with the modal gone: the interval clears itself.
LiveResultsTick ==
    /\ intervals["liveUpdateInterval"]
    /\ ~liveModal
    /\ intervals' = [intervals EXCEPT !["liveUpdateInterval"] = FALSE]
    /\ UNCHANGED <<liveModal, asyncVars>>
    /\ UNCHANGED <<sessVars, connVars>>
    /\ UNCHANGED <<msgVars, clockVars>>

\* ---------------------------------------------------------------------
\* Admin channel: the message router
\* ---------------------------------------------------------------------
\* addActivityLog with push for unshift.
addActivityLog_push(log, kind, type, q) ==
    log \o <<[kind |-> kind, type |-> type, q |-> q]>>

\* addActivityLog(): unshift.
addActivityLog(log, kind, type, q) ==
    <<[kind |-> kind, type |-> type, q |-> q]>> \o log

\* The test with >= for >.
ShouldNotifyExpired_ge(last, t) == last = 0 \/ t - last >= DedupWindow

\* The test that lets a question_expired message through.
ShouldNotifyExpired(last, t) == last = 0 \/ t - last > DedupWindow

\* The refresh timeouts a message sets before it reads its data field:
\* setTimeout(() => loadAforoData(), ...) of attendance_registered,
\* vote_registered (whose timeout also updates the vote counts) and
\* participant_removed.
AforoKinds == {"attendance_registered", "vote_registered", "participant_removed"}

setAforoTimeout(type) ==
    /\ aforoTimers' = aforoTimers + 1
    /\ reloadRequests' = [reloadRequests EXCEPT ![type] = @ + 1]

\* setTimeout(() => loadActiveQuestions(), ...) of the router.
setReloadTimeout(type) ==
    /\ reloadTimers' = reloadTimers + 1
    /\ reloadRequests' = [reloadRequests EXCEPT ![type] = @ + 1]
    /\ timeouts' = Schedule(timeouts, "loadActive")

handleAdminWebSocketMessage(type, q, tabVotaciones) ==
    /\ UNCHANGED <<loadActiveQuestionsTimeout, activeFetches, aforoFetches>>
    /\ CASE type = "attendance_registered" ->
            /\ setAforoTimeout(type)
            /\ activityLog' = addActivityLog(activityLog, type, "success", 0)
            /\ UNCHANGED <<lastNotifications, toasts, timeouts, reloadTimers>>
      [] type = "vote_registered" ->
            /\ setAforoTimeout(type)
            /\ activityLog' = addActivityLog(activityLog, type, "info", 0)
            /\ UNCHANGED <<lastNotifications, toasts, timeouts, reloadTimers>>
      [] type = "question_created" ->
            /\ activityLog' = addActivityLog(activityLog, type, "success", 0)
            /\ IF tabVotaciones
               THEN setReloadTimeout(type)
               ELSE UNCHANGED <<reloadTimers, reloadRequests, timeouts>>
            /\ UNCHANGED <<lastNotifications, toasts, aforoTimers>>
      [] type = "participant_removed" ->
            /\ setAforoTimeout(type)
            /\ toasts' = Append(toasts, [kind |-> type, type |-> "warning"])
            /\ activityLog' = addActivityLog(activityLog, type, "warning", 0)
            /\ UNCHANGED <<lastNotifications, timeouts, reloadTimers>>
      [] type = "question_expired" ->
            IF ShouldNotifyExpired(lastNotifications[q], now)
            THEN /\ lastNotifications' = [lastNotifications EXCEPT ![q] = now]
                 /\ setReloadTimeout(type)
                 /\ activityLog' = addActivityLog(activityLog, type, "warning", q)
                 /\ toasts' = Append(toasts, [kind |-> type, type |-> "warning"])
                 /\ UNCHANGED aforoTimers
            ELSE UNCHANGED <<lastNotifications, activityLog, toasts, reloadRequests,
                             timeouts, reloadTimers, aforoTimers>>
      [] OTHER -> UNCHANGED <<lastNotifications, activityLog, toasts, reloadRequests,
                              timeouts, reloadTimers, aforoTimers>>

\* onmessage of an open admin socket.
OnAdminMessage(s, type, q, tabVotaciones) ==
    /\ sockets[s].state = "open"
    /\ sockets[s].role = "admin"
    /\ Len(activityLog) < MaxLog
    /\ type = "question_expired" => Len(expiredSeen[q]) < MaxMsgs
    /\ expiredSeen' = IF type = "question_expired"
                      THEN [expiredSeen EXCEPT ![q] = Append(@, now)]
                      ELSE expiredSeen
    /\ handleAdminWebSocketMessage(type, q, tabVotaciones)
    /\ Delivered(type, AdminMessageKinds)
    /\ Transport(s, Frame(type, "valid"))
    /\ UNCHANGED <<envVars, modalVars, choiceVars, now, restorePc, inflight>>
    /\ UNCHANGED clockVars
    /\ UNCHANGED <<sessVars, connVars, uiVars>>

\* Frames the admin callback cannot handle: text that is not JSON, or a message
\* of a recognized type without its data field (question_created reads no data).
AdminBadFrames == {"malformed", "attendance_registered", "vote_registered",
                   "participant_removed", "question_expired"}

\* onmessage of an open admin socket with a frame it cannot handle: the router
\* throws before it logs, notifies or asks for the active questions, after the
\* timeout of loadAforoData() is set, and the error is caught and logged.
OnAdminBadFrame(s, frame) ==
    /\ sockets[s].state = "open"
    /\ sockets[s].role = "admin"
    /\ afterBadFrame' = "dropped"
    /\ IF frame \in AforoKinds
       THEN aforoTimers < MaxRefresh /\ setAforoTimeout(frame)
       ELSE UNCHANGED <<aforoTimers, reloadRequests>>
    /\ UNCHANGED <<reloadTimers, loadActiveQuestionsTimeout, activeFetches, aforoFetches>>
    /\ Transport(s, IF frame = "malformed" THEN Frame("", "malformed")
                                          ELSE Frame(frame, "nodata"))
    /\ UNCHANGED <<envVars, modalVars, choiceVars, now, lastNotifications, activityLog, toasts, expiredSeen,
                   unknownFrames>>
    /\ UNCHANGED clockVars
    /\ UNCHANGED <<sessVars, connVars, asyncVars, uiVars>>

\* loadActiveQuestions() without its clearTimeout.
setDebounce_noClear(n) == n + 1

\* loadActiveQuestions(): clearTimeout of the timeout a previous call left,
\* then setTimeout of the fetch.
setDebounce(n) == 1

\* A timeout set by the router fires and calls loadActiveQuestions().
ReloadTimeout ==
    /\ reloadTimers > 0
    /\ reloadTimers' = reloadTimers - 1
    /\ timeouts' = IF reloadTimers = 1 THEN [timeouts EXCEPT !["loadActive"] = 0] ELSE timeouts
    /\ loadActiveQuestionsTimeout' = setDebounce(loadActiveQuestionsTimeout)
    /\ UNCHANGED <<activeFetches, aforoTimers, aforoFetches>>
    /\ UNCHANGED <<envVars, modalVars, choiceVars, traceVars, now, lastNotifications, activityLog, toasts,
                   reloadRequests, expiredSeen, afterBadFrame, unknownFrames>>
    /\ UNCHANGED <<restorePc, inflight>>
    /\ UNCHANGED <<sessVars, connVars, uiVars, clockVars>>

\* The timeout of loadActiveQuestions() fires: the active questions are
\* fetched and rendered, and startAdminTimers() runs on success.
loadActiveQuestionsTimeoutFires(ok) ==
    /\ loadActiveQuestionsTimeout > 0
    /\ loadActiveQuestionsTimeout' = loadActiveQuestionsTimeout - 1
    /\ activeFetches' = activeFetches + 1
    /\ intervals' = IF ok THEN startAdminTimers(intervals) ELSE intervals
    /\ UNCHANGED <<reloadTimers, aforoTimers, aforoFetches>>
    /\ UNCHANGED <<envVars, modalVars, choiceVars, traceVars, now, lastNotifications, activityLog, toasts,
                   reloadRequests, expiredSeen, afterBadFrame, unknownFrames>>
    /\ UNCHANGED <<liveModal, asyncVars>>
    /\ UNCHANGED <<sessVars, connVars, clockVars>>

\* A timeout of the router that calls loadAforoData() fires: the fetch.
AforoTimeout ==
    /\ aforoTimers > 0
    /\ aforoTimers' = aforoTimers - 1
    /\ aforoFetches' = aforoFetches + 1
    /\ UNCHANGED <<reloadTimers, loadActiveQuestionsTimeout, activeFetches>>
    /\ UNCHANGED <<envVars, modalVars, choiceVars, traceVars, now, lastNotifications, activityLog, toasts,
                   reloadRequests, expiredSeen, afterBadFrame, unknownFrames>>
    /\ UNCHANGED <<sessVars, connVars, asyncVars, uiVars, clockVars>>

\* One second passes.
Tick ==
    /\ now < 1000 * MaxTicks
    /\ now' = now + 1000
    /\ UNCHANGED <<lastNotifications, activityLog, toasts, reloadRequests, expiredSeen,
                 afterBadFrame, unknownFrames, envVars, modalVars, choiceVars, traceVars, refreshVars>>
    /\ UNCHANGED clockVars
    /\ UNCHANGED <<sessVars, connVars, asyncVars, uiVars>>

\* ---------------------------------------------------------------------
\* Specifications
\* ---------------------------------------------------------------------
\* A voter session on the voter screen, the socket open, the first
\* loadVotingQuestions() pending.
InitVoterSession ==
    /\ adminToken = FALSE
    /\ voterToken = TRUE
    /\ currentUser = RealCode
    /\ isAdmin = FALSE
    /\ storage = [admin_token |-> FALSE, voter_token |-> TRUE]
    /\ screen = "voter-screen"
    /\ adminWebSocket = 0
    /\ voterWebSocket = 1
    /\ sockets = [s \in SocketIds |->
                    IF s = 1 THEN [role |-> "voter", state |-> "open"] ELSE FreeSocket]
    /\ wsReconnectAttempts = 0
    /\ reconnectTimers = <<>>
    /\ scheduledDelays = <<>>
    /\ exhausted = FALSE
    /\ restorePc = "done"
    /\ inflight = [k \in RequestKinds |-> 0]
    /\ timeouts = [k \in TimeoutKinds |-> IF k = "loadQuestions" THEN 1 ELSE 0]
    /\ intervals = [n \in IntervalNames |-> FALSE]
    /\ liveModal = FALSE
    /\ now = 1000
    /\ lastNotifications = [q \in QuestionIds |-> 0]
    /\ activityLog = <<>>
    /\ toasts = <<>>
    /\ reloadRequests = [k \in AdminMessageKinds |-> 0]
    /\ expiredSeen = [q \in QuestionIds |-> <<>>]
    /\ questionTimers = NoTimers
    /\ timers = NoTimers
    /\ timersInDocument = FALSE
    /\ votingCards = FALSE
    /\ agotado = {}
    /\ expireRefreshes = [q \in QuestionIds |-> 0]
    /\ afterBadFrame = "none"
    /\ unknownFrames = FALSE
    /\ observed = {}
    /\ delivered = [s \in SocketIds |-> <<>>]
    /\ dispatched = [s \in SocketIds |-> <<>>]
    /\ reloadTimers = 0
    /\ loadActiveQuestionsTimeout = 0
    /\ activeFetches = 0
    /\ aforoTimers = 0
    /\ aforoFetches = 0
    /\ container = {}
    /\ activeModal = 0
    /\ modalsCreated = 0
    /\ hideTimers = <<>>
    /\ powerPromises = <<>>
    /\ powerResolveCallback = NoCallback
    /\ powerTimeouts = {}
    /\ maxSelections = 1
    /\ allowMultiple = FALSE
    /\ selected = {}
    /\ submitDisabled = TRUE
    /\ constructorThrows = FALSE

\* Question lists the server may send.
Countdowns == [QuestionIds -> {NoTimer} \cup (0..MaxSeconds)]
OneCountdown == {qs \in Countdowns : qs[8] = NoTimer /\ qs[7] = 1}

VoterMessageKinds == RefreshKinds \cup {"system_reset", "force_disconnect"}

\* Sessions and the two channels: logins, logout, transport events,
\* reconnect timeouts and the voter router.
Next ==
    \/ TryRestoreStart
    \/ TryRestoreOk
    \/ TryRestoreFail
    \/ UserReload
    \/ ReloadTimer
    \/ validateAdminCredentials
    \/ AdminLoginOk
    \/ accessVoting
    \/ AccessVotingOk
    \/ \E kind \in {"adminLogin", "voterLogin"} : RequestFails(kind)
    \/ LogoutClick
    \/ ForceLogoutTimer
    \/ \E s \in SocketIds : OnOpen(s)
    \/ \E s \in SocketIds : OnClose(s)
    \/ \E i \in 1..MaxTimers : ReconnectTimerFires(i)
    \/ \E s \in SocketIds, type \in VoterMessageKinds : OnVoterMessage(s, type)
    \/ NotificationHide

Spec == Init /\ [][Next]_vars

\* Sessions and the polling clocks of the two screens; the transport is
\* silent, sockets go away with the page.
NextTimers ==
    \/ TryRestoreStart
    \/ TryRestoreOk
    \/ TryRestoreFail
    \/ UserReload
    \/ validateAdminCredentials
    \/ AdminLoginOk
    \/ accessVoting
    \/ AccessVotingOk
    \/ LogoutClick
    \/ LoadQuestionsTimer
    \/ \E qs \in OneCountdown : QuestionsLoaded(qs)
    \/ initializeVotingTimer
    \/ VotingTimerTick
    \/ loadAdminData
    \/ ShowAdminScreenEnd
    \/ \E ok \in BOOLEAN : loadActiveQuestions(ok)
    \/ viewVotingResults
    \/ HideModal
    \/ LiveResultsTick

SpecTimers == Init /\ [][NextTimers]_vars

\* Every way into and out of a session, with a transport that only closes.
NextSession ==
    \/ TryRestoreStart
    \/ TryRestoreOk
    \/ TryRestoreFail
    \/ UserReload
    \/ ReloadTimer
    \/ validateAdminCredentials
    \/ AdminLoginOk
    \/ accessVoting
    \/ AccessVotingOk
    \/ validateTestUserAdmin
    \/ DemoLoginOk
    \/ registerAttendance
    \/ processDirectRegistration
    \/ \E kind \in RequestKinds : RequestFails(kind)
    \/ resetDatabase
    \/ ResetOk
    \/ ResetFail
    \/ WelcomeTimer
    \/ LogoutClick
    \/ \E s \in SocketIds : OnClose(s)
    \/ \E i \in 1..MaxTimers : ReconnectTimerFires(i)

SpecSession == Init /\ [][NextSession]_vars

\* The admin router on an established admin session, with wall-clock time.
InitAdminSession ==
    /\ adminToken = TRUE
    /\ voterToken = FALSE
    /\ currentUser = NoUser
    /\ isAdmin = TRUE
    /\ storage = [admin_token |-> TRUE, voter_token |-> FALSE]
    /\ screen = "admin-screen"
    /\ adminWebSocket = 1
    /\ voterWebSocket = 0
    /\ sockets = [s \in SocketIds |->
                    IF s = 1 THEN [role |-> "admin", state |-> "open"] ELSE FreeSocket]
    /\ wsReconnectAttempts = 0
    /\ reconnectTimers = <<>>
    /\ scheduledDelays = <<>>
    /\ exhausted = FALSE
    /\ restorePc = "done"
    /\ inflight = [k \in RequestKinds |-> 0]
    /\ timeouts = [k \in TimeoutKinds |-> IF k = "adminData" THEN 1 ELSE 0]
    /\ intervals = [n \in IntervalNames |-> FALSE]
    /\ liveModal = FALSE
    /\ now = 1000
    /\ lastNotifications = [q \in QuestionIds |-> 0]
    /\ activityLog = <<>>
    /\ toasts = <<>>
    /\ reloadRequests = [k \in AdminMessageKinds |-> 0]
    /\ expiredSeen = [q \in QuestionIds |-> <<>>]
    /\ questionTimers = NoTimers
    /\ timers = NoTimers
    /\ timersInDocument = FALSE
    /\ votingCards = FALSE
    /\ agotado = {}
    /\ expireRefreshes = [q \in QuestionIds |-> 0]
    /\ afterBadFrame = "none"
    /\ unknownFrames = FALSE
    /\ observed = {}
    /\ delivered = [s \in SocketIds |-> <<>>]
    /\ dispatched = [s \in SocketIds |-> <<>>]
    /\ reloadTimers = 0
    /\ loadActiveQuestionsTimeout = 0
    /\ activeFetches = 0
    /\ aforoTimers = 0
    /\ aforoFetches = 0
    /\ container = {}
    /\ activeModal = 0
    /\ modalsCreated = 0
    /\ hideTimers = <<>>
    /\ powerPromises = <<>>
    /\ powerResolveCallback = NoCallback
    /\ powerTimeouts = {}
    /\ maxSelections = 1
    /\ allowMultiple = FALSE
    /\ selected = {}
    /\ submitDisabled = TRUE
    /\ constructorThrows = FALSE

NextAdminRouter ==
    \/ Tick
    \/ \E s \in SocketIds, q \in QuestionIds :
          OnAdminMessage(s, "question_expired", q, FALSE)
    \/ \E s \in SocketIds, type \in {"question_created", "participant_removed"},
          tabVotaciones \in BOOLEAN :
          OnAdminMessage(s, type, 7, tabVotaciones)

SpecAdminRouter == InitAdminSession /\ [][NextAdminRouter]_vars

\* The state SpecAdminRouter starts in is a state of Spec.
\* The countdowns of the voter screen: question lists arrive, are rendered
\* and re-rendered, and the clock ticks.
NextCountdown ==
    \/ LoadQuestionsTimer
    \/ \E qs \in Countdowns : QuestionsLoaded(qs)
    \/ QuestionsFail
    \/ initializeVotingTimer
    \/ VotingTimerTick
    \/ \E s \in SocketIds, type \in RefreshKinds : OnVoterMessage(s, type)

SpecCountdown == InitVoterSession /\ [][NextCountdown]_vars

\* The real and the demo user on the voter screen, with the reconnects left
\* behind by an earlier session.
NextDemo ==
    \/ TryRestoreStart
    \/ accessVoting
    \/ AccessVotingOk
    \/ validateTestUserAdmin
    \/ DemoLoginOk
    \/ \E kind \in {"voterLogin", "demoLogin"} : RequestFails(kind)
    \/ LogoutClick
    \/ \E s \in SocketIds : OnOpen(s)
    \/ \E s \in SocketIds : OnClose(s)
    \/ \E i \in 1..MaxTimers : ReconnectTimerFires(i)
    \/ LoadQuestionsTimer
    \/ QuestionsLoaded(NoTimers)
    \/ QuestionsFail
    \/ DemoQuestionsTimer
    \/ voteYesNo
    \/ submitMultipleVote
    \/ VoteOk
    \/ \E detail \in RejectionDetails : VoteFails(detail)

SpecDemo == Init /\ [][NextDemo]_vars

\* Both channels of an open session under every kind of frame: valid ones of
\* recognized and unrecognized types, text that is not JSON, and messages
\* without their data field.
InitFrames == InitVoterSession \/ InitAdminSession

NextFrames ==
    \/ \E s \in SocketIds, type \in VoterKinds \cup {UnknownKind} : OnVoterMessage(s, type)
    \/ \E s \in SocketIds, frame \in VoterBadFrames : OnVoterBadFrame(s, frame)
    \/ \E s \in SocketIds, type \in AdminMessageKinds \cup {UnknownKind},
          tabVotaciones \in BOOLEAN :
          OnAdminMessage(s, type, 7, tabVotaciones)
    \/ \E s \in SocketIds, frame \in AdminBadFrames : OnAdminBadFrame(s, frame)
    \/ LoadQuestionsTimer
    \/ QuestionsLoaded(NoTimers)
    \/ QuestionsFail
    \/ ForceLogoutTimer
    \/ NotificationHide

SpecFrames == InitFrames /\ [][NextFrames]_vars

\* Sessions on a page where the WebSocket constructor throws.
InitBlocked ==
    /\ InitWith([admin_token |-> FALSE, voter_token |-> FALSE])
    /\ constructorThrows = TRUE

NextBlocked ==
    \/ TryRestoreStart
    \/ TryRestoreOk
    \/ TryRestoreFail
    \/ UserReload
    \/ validateAdminCredentials
    \/ AdminLoginOk
    \/ accessVoting
    \/ AccessVotingOk
    \/ \E kind \in {"adminLogin", "voterLogin"} : RequestFails(kind)
    \/ LogoutClick
    \/ NotificationHide

SpecBlocked == InitBlocked /\ [][NextBlocked]_vars

\* Both channels of an open session with the frames of their sockets
\* recorded.
NextOrder ==
    \/ StartTrace
    \/ \E s \in SocketIds, type \in {"new_question", "force_disconnect", UnknownKind} :
          OnVoterMessage(s, type)
    \/ \E s \in SocketIds, frame \in {"malformed", "force_disconnect"} :
          OnVoterBadFrame(s, frame)
    \/ \E s \in SocketIds,
          type \in {"vote_registered", "participant_removed", "question_expired",
                    UnknownKind} :
          OnAdminMessage(s, type, 7, TRUE)
    \/ \E s \in SocketIds, frame \in {"malformed", "vote_registered"} :
          OnAdminBadFrame(s, frame)

SpecOrder == InitFrames /\ [][NextOrder]_vars

\* The admin router and the refreshes it sets going, for the kinds whose
\* timeouts have one delay each (800 ms and 300 ms), so that they fire in the
\* order of their messages, any time apart.
NextRefresh ==
    \/ \E s \in SocketIds, type \in {"question_created", "vote_registered"},
          tabVotaciones \in BOOLEAN :
          OnAdminMessage(s, type, 7, tabVotaciones)
    \/ ReloadTimeout
    \/ \E ok \in BOOLEAN : loadActiveQuestionsTimeoutFires(ok)
    \/ AforoTimeout

SpecRefresh == InitAdminSession /\ [][NextRefresh]_vars

\* The forms that take an access code, on the welcome screen and on the
\* admin screen.
NextValidate ==
    \/ TryRestoreStart
    \/ \E fn \in FormHandlers, value \in InputValues : codeEntered(fn, value)
    \/ validateAdminCredentials
    \/ AdminLoginOk
    \/ AccessVotingOk
    \/ processDirectRegistration
    \/ \E kind \in {"adminLogin", "voterLogin", "register"} : RequestFails(kind)
    \/ \E ok \in BOOLEAN : DeleteCodeDone(ok)
    \/ LogoutClick
    \/ NotificationHide

SpecValidate == Init /\ [][NextValidate]_vars

\* A real voter on the voter screen casting yes/no votes.
NextVote ==
    \/ LoadQuestionsTimer
    \/ QuestionsLoaded(NoTimers)
    \/ QuestionsFail
    \/ voteYesNo
    \/ VoteOk
    \/ \E detail \in RejectionDetails : VoteFails(detail)
    \/ NotificationHide

SpecVote == InitVoterSession /\ [][NextVote]_vars

\* Modals over the welcome screen: the admin login modal, the power question
\* of an attendance registration, and their timeouts.
NextModals ==
    \/ TryRestoreStart
    \/ showAdminLogin
    \/ modalsHide
    \/ HideTimeout
    \/ showPowerQuestion
    \/ \E isPower \in BOOLEAN : modalResolvePower(isPower)
    \/ \E i \in 1..MaxPromises : PowerTimeout(i)
    \/ processDirectRegistration
    \/ RequestFails("register")

SpecModals == Init /\ [][NextModals]_vars

\* The ways a Session ends: logout, resetDatabase, a rejected restore, a reload.
NextEnd ==
    \/ TryRestoreStart
    \/ TryRestoreOk
    \/ TryRestoreFail
    \/ UserReload
    \/ ReloadTimer
    \/ validateAdminCredentials
    \/ AdminLoginOk
    \/ accessVoting
    \/ AccessVotingOk
    \/ RequestFails("adminLogin")
    \/ resetDatabase
    \/ ResetOk
    \/ ResetFail
    \/ WelcomeTimer
    \/ LogoutClick
    \/ \E s \in SocketIds : OnOpen(s)
    \/ \E s \in SocketIds : OnClose(s)

SpecEnd == Init /\ [][NextEnd]_vars

\* A voter on the card of a multiple-choice question.
NextChoice ==
    \/ LoadQuestionsTimer
    \/ QuestionsLoaded(NoTimers)
    \/ QuestionsFail
    \/ \E question \in MultipleQuestions : createMultipleVoting(question)
    \/ \E element \in Options : selectMultipleOption(element)
    \/ submitMultipleVoteCall
    \/ VoteOk
    \/ \E detail \in RejectionDetails : VoteFails(detail)
    \/ NotificationHide

SpecChoice == InitVoterSession /\ [][NextChoice]_vars

AdminSessionReached ==
    /\ adminToken /\ isAdmin /\ screen = "admin-screen"
    /\ adminWebSocket = 1 /\ sockets[1] = [role |-> "admin", state |-> "open"]
    /\ sockets[2] = FreeSocket /\ reconnectTimers = <<>> /\ wsReconnectAttempts = 0
    /\ timeouts = [k \in TimeoutKinds |-> IF k = "adminData" THEN 1 ELSE 0]

\* =====================================================================
\* Properties
\* =====================================================================
LiveOf(role) == {s \in SocketIds : sockets[s].role = role /\ Live(s)}
Other(role) == IF role = "admin" THEN "voter" ELSE "admin"
SocketCreated == \E s \in SocketIds : sockets[s].state = "free" /\ sockets'[s].state = "connecting"
TimerAdded == Len(reconnectTimers') > Len(reconnectTimers)
AddedTimer == reconnectTimers'[Len(reconnectTimers')]
NoRole == ~isAdmin /\ currentUser = NoUser /\ ~adminToken /\ ~voterToken

\* C1: in every reachable state each role has at most one live (connecting
\* or open) socket.
C1_OneLiveSocketPerRole == \A r \in Roles : Cardinality(LiveOf(r)) <= 1

\* C2: while the counter is not reset by an open, the reconnects scheduled
\* so far have the delays 2000, 4000, 8000, 16000, 30000 ms in that order;
\* a close that finds the fifth attempt used schedules nothing and shows the
\* warning.
Backoff == <<2000, 4000, 8000, 16000, 30000>>

C2_DelaysInOrder ==
    /\ wsReconnectAttempts <= 5
    /\ Len(scheduledDelays) = wsReconnectAttempts
    /\ \A i \in 1..Len(scheduledDelays) : scheduledDelays[i] = Backoff[i]

C3_DelayAtCount ==
    /\ [](wsReconnectAttempts \in 0..5)
    /\ [][/\ TimerAdded =>
                AddedTimer.delay = Min(1000 * Pow2(wsReconnectAttempts), 30000)
          /\ \A s \in SocketIds : OnClose(s) => (TimerAdded <=> wsReconnectAttempts < 5)]_vars

\* C3 amended: the counter is raised first, so the reconnect scheduled by a
\* close that finds the counter at n waits min(1000 * 2^(n+1), 30000) ms.
C3_DelayAfterIncrement ==
    /\ [](wsReconnectAttempts \in 0..5)
    /\ [][/\ TimerAdded =>
                /\ AddedTimer.delay = Min(1000 * Pow2(wsReconnectAttempts + 1), 30000)
                /\ wsReconnectAttempts' = wsReconnectAttempts + 1
          /\ \A s \in SocketIds : OnClose(s) => (TimerAdded <=> wsReconnectAttempts < 5)]_vars

C3_Witness ==
    /\ wsReconnectAttempts = 5
    /\ Len(reconnectTimers) > 0
    /\ reconnectTimers[Len(reconnectTimers)].delay = 30000

\* C4: after the warning no connection is opened and no reconnect is
\* scheduled until a login creates a new Session, and a new Session starts
\* with the counter at 0.
C4_NoRetryAfterExhaustion ==
    [][/\ (exhausted /\ exhausted') => (~SocketCreated /\ ~TimerAdded)
       /\ (AdminLoginOk \/ AccessVotingOk) => wsReconnectAttempts' = 0]_vars

\* C5: an open or a close on one role's channel leaves the retry count of
\* the other role's channel, when that channel is in use, as it was.
ChannelInUse(role) ==
    \/ LiveOf(role) # {}
    \/ \E i \in 1..Len(reconnectTimers) : reconnectTimers[i].type = role

C5_IndependentCounters ==
    [][\A s \in SocketIds :
          ((OnOpen(s) \/ OnClose(s)) /\ ChannelInUse(Other(sockets[s].role)))
              => wsReconnectAttempts' = wsReconnectAttempts]_vars

\* C6: the activity-log entries, toasts and reloads of question_expired.
ExpiredEntries(q) ==
    {i \in 1..Len(activityLog) :
        activityLog[i] = [kind |-> "question_expired", type |-> "warning", q |-> q]}
ExpiredToasts == {i \in 1..Len(toasts) : toasts[i].kind = "question_expired"}
AllExpiredEntries == {i \in 1..Len(activityLog) : activityLog[i].kind = "question_expired"}
Apart(q) == expiredSeen[q][2] - expiredSeen[q][1]
OneOfEach ==
    /\ Cardinality(ExpiredToasts) = Cardinality(AllExpiredEntries)
    /\ reloadRequests["question_expired"] = Cardinality(AllExpiredEntries)

\* C6 as stated: two question_expired messages for one question produce one
\* toast, log entry and reload when less than 5000 ms apart, two when 5000 ms
\* or more apart.
C6_DedupWindow ==
    /\ OneOfEach
    /\ \A q \in QuestionIds :
          Len(expiredSeen[q]) = 2 =>
              Cardinality(ExpiredEntries(q)) = IF Apart(q) < 5000 THEN 1 ELSE 2

\* C6 amended: one of each when 5000 ms or less apart, two when more than
\* 5000 ms apart.
C6_DedupWindowInclusive ==
    /\ OneOfEach
    /\ \A q \in QuestionIds :
          Len(expiredSeen[q]) = 2 =>
              Cardinality(ExpiredEntries(q)) = IF Apart(q) <= 5000 THEN 1 ELSE 2

C6_Witness ==
    \E q \in QuestionIds :
        /\ Len(expiredSeen[q]) = 2
        /\ Apart(q) = 5000
        /\ Cardinality(ExpiredEntries(q)) = 1
        /\ Cardinality(ExpiredToasts) = 1

\* C7: from the receipt of force_disconnect or system_reset on, the voter
\* connection is closed and the countdown clock stopped; no message is acted
\* on during the delay; when the delay of force_disconnect ends the client is
\* on the welcome screen with no role.
TeardownPending == timeouts["forceLogout"] > 0 \/ timeouts["reload"] > 0

C7_TornDownOnReceipt ==
    /\ [](TeardownPending =>
            (voterWebSocket = 0 /\ LiveOf("voter") = {} /\ ~intervals["timerInterval"]))
    /\ [][/\ ForceLogoutTimer => (NoRole /\ screen = "welcome-screen")'
          /\ \A s \in SocketIds, type \in RefreshKinds :
                (TeardownPending /\ OnVoterMessage(s, type)) => timeouts' = timeouts]_vars

\* C8: the close event of a socket closed by disconnectWebSocket schedules
\* no reconnect and leaves the counter alone, and no step that ends without
\* a session opens a connection.
C8_TeardownIsTerminal ==
    [][/\ \A s \in SocketIds :
             (sockets[s].state = "closing" /\ OnClose(s))
                 => (~TimerAdded /\ wsReconnectAttempts' = wsReconnectAttempts)
       /\ (~isAdmin' /\ currentUser' = NoUser) => ~SocketCreated]_vars

\* C9: logout() leaves both references null with their sockets closed, no
\* token in storage, no role in memory and the welcome screen visible.
LoggedOut ==
    /\ adminWebSocket = 0
    /\ voterWebSocket = 0
    /\ storage = [admin_token |-> FALSE, voter_token |-> FALSE]
    /\ NoRole
    /\ screen = "welcome-screen"

C9_LogoutPostcondition ==
    [][(LogoutClick \/ ForceLogoutTimer) =>
          /\ LoggedOut'
          /\ \A s \in SocketIds :
                s \in {adminWebSocket, voterWebSocket} => sockets'[s].state = "closing"]_vars

C9_Witness ==
    /\ LoggedOut
    /\ \E s \in SocketIds : sockets[s].state = "closing"

\* C10: logout() leaves no countdown clock or polling interval running.
C10_NoIntervalAfterLogout ==
    [][LogoutClick => \A n \in IntervalNames : ~intervals'[n]]_vars

\* C11: logout() called when no Session is active (here: the timeout of
\* force_disconnect fires after the user has already logged out) changes no
\* state and repeats no side effect: no toast, no close, no screen change, no
\* reconnect scheduled.
C11_LogoutIdempotent ==
    [][(ForceLogoutTimer /\ LoggedOut) =>
          UNCHANGED <<sessVars, connVars, uiVars, msgVars, clockVars, restorePc,
                      inflight>>]_vars

\* C12: while the current identity is the demo code no voter socket is
\* referenced, connecting or open.
C12_DemoOpensNoChannel ==
    currentUser = CODIGO_PRUEBA => (voterWebSocket = 0 /\ LiveOf("voter") = {})

\* C13: while the current identity is the demo code, no step sends a vote or
\* a request for the question list to the backend.
C13_DemoSendsNothing ==
    [][currentUser = CODIGO_PRUEBA =>
          \A kind \in {"vote", "questions"} : inflight'[kind] <= inflight[kind]]_vars

\* C14: the expiry refresh of a countdown is set at most once, however many
\* ticks follow.
C14_ExpireOnce == \A q \in QuestionIds : expireRefreshes[q] <= 1

\* C15: every countdown, in the document or held by the clock, is an integer
\* >= 0; a tick lowers a positive countdown by exactly 1 and leaves a
\* countdown at 0 as it is.
C15_Remaining(ts) == \A q \in QuestionIds : ts[q] # NoTimer => ts[q] \in 0..MaxSeconds

C15_NeverNegative ==
    /\ [](C15_Remaining(questionTimers) /\ C15_Remaining(timers))
    /\ [][VotingTimerTick =>
            \A q \in QuestionIds :
                /\ timers[q] > 0 => timers'[q] = timers[q] - 1
                /\ timers[q] = 0 => timers'[q] = 0
                /\ (timersInDocument /\ questionTimers[q] > 0)
                        => questionTimers'[q] = questionTimers[q] - 1
                /\ questionTimers[q] = 0 => questionTimers'[q] = 0]_vars

C15_Witness ==
    \E q \in QuestionIds :
        /\ timers[q] = 0
        /\ questionTimers[q] = 0
        /\ q \in agotado
        /\ expireRefreshes[q] >= 1

\* C16: whenever no countdown in the document is above 0 the clock is
\* stopped, and rendering a countdown above 0 sets the clock up again.
C16_NoIdleClock ==
    /\ []((\A q \in QuestionIds : questionTimers[q] <= 0) => ~intervals["timerInterval"])
    /\ [][(\E qs \in Countdowns : QuestionsLoaded(qs) /\ Active(qs) # {})
            => timeouts'["initTimer"] > 0]_vars

\* C17: a countdown rendered with 0 seconds left reads expired and has its
\* expiry refresh set by the step that renders it.
C17_ExpiredAtRegistration ==
    [][(\E qs \in Countdowns : QuestionsLoaded(qs)) =>
          \A q \in QuestionIds :
              questionTimers'[q] = 0 => (q \in agotado' /\ expireRefreshes'[q] >= 1)]_vars

\* A step of a message callback on a frame it cannot handle.
BadFrameStep ==
    \E s \in SocketIds :
        \/ \E frame \in VoterBadFrames : OnVoterBadFrame(s, frame)
        \/ \E frame \in AdminBadFrames : OnAdminBadFrame(s, frame)

\* C18: a frame that is not JSON, or whose handler fails on a missing data
\* field, leaves the connection and the session as they were and sets no
\* logout or reload; a valid frame that arrives on the connection after it is
\* dispatched with its full effect.
C18_BadFrameDropped ==
    [][/\ BadFrameStep =>
            /\ UNCHANGED <<sessVars, connVars>>
            /\ timeouts'["forceLogout"] = timeouts["forceLogout"]
            /\ timeouts'["reload"] = timeouts["reload"]
       /\ \A s \in SocketIds :
            (afterBadFrame = "dropped" /\ OnVoterMessage(s, "force_disconnect")) =>
                (afterBadFrame' = "dispatched" /\ timeouts'["forceLogout"] > 0)
       /\ \A s \in SocketIds :
            (afterBadFrame = "dropped" /\ OnAdminMessage(s, "participant_removed", 7, FALSE)) =>
                (afterBadFrame' = "dispatched" /\ Len(activityLog') = Len(activityLog) + 1)]_vars

\* A bad frame was dropped and a later force_disconnect has set the logout.
C18_Witness ==
    /\ afterBadFrame = "dispatched"
    /\ timeouts["forceLogout"] > 0
    /\ \E s \in SocketIds : sockets[s] = [role |-> "voter", state |-> "open"]
    /\ currentUser = RealCode
    /\ voterToken

\* A step of a router on a message of an unrecognized type.
UnknownKindStep ==
    \E s \in SocketIds :
        \/ OnVoterMessage(s, UnknownKind)
        \/ \E tabVotaciones \in BOOLEAN : OnAdminMessage(s, UnknownKind, 7, tabVotaciones)

\* C19: a message whose type is not one of the recognized kinds of its
\* channel changes no state: no refresh is scheduled, no notification is
\* shown and no activity-log entry is added.
C19_UnknownKindIgnored ==
    [][UnknownKindStep =>
          UNCHANGED <<sessVars, connVars, asyncVars, uiVars, clockVars, now,
                      lastNotifications, activityLog, toasts, reloadRequests,
                      expiredSeen>>]_vars

\* A message of an unrecognized type has reached the router of an open channel.
C19_Witness ==
    /\ unknownFrames
    /\ \E s \in SocketIds : sockets[s].state = "open"

\* A retry of the role's connection is on its way: a reconnect timeout is
\* pending, or a socket of the role has still to report its close.
RetryPending(role) ==
    \/ \E i \in 1..Len(reconnectTimers) : reconnectTimers[i].type = role
    \/ \E s \in SocketIds : sockets[s] = [role |-> role, state |-> "closing"]

\* C20: while a role's session is on its screen without a live socket,
\* attempts remain and the policy has not given up, a retry of its connection
\* is on its way.
C20_RetryAfterFailedConstruction ==
    /\ (isAdmin /\ adminToken /\ screen = "admin-screen" /\ LiveOf("admin") = {}
            /\ wsReconnectAttempts < MAX_RECONNECT_ATTEMPTS /\ ~exhausted)
        => RetryPending("admin")
    /\ (~isAdmin /\ voterToken /\ currentUser # NoUser /\ screen = "voter-screen"
            /\ LiveOf("voter") = {} /\ wsReconnectAttempts < MAX_RECONNECT_ATTEMPTS
            /\ ~exhausted)
        => RetryPending("voter")

RECURSIVE Reverse(_)
Reverse(seq) == IF seq = <<>> THEN <<>> ELSE Append(Reverse(Tail(seq)), Head(seq))

RECURSIVE Kinds(_)
Kinds(seq) == IF seq = <<>> THEN <<>> ELSE <<Head(seq).kind>> \o Kinds(Tail(seq))

RECURSIVE Types(_)
Types(seq) == IF seq = <<>> THEN <<>> ELSE <<Head(seq).type>> \o Types(Tail(seq))

IsPrefix(a, b) == Len(a) <= Len(b) /\ SubSeq(b, 1, Len(a)) = a

Parsed(frame) == frame.form # "malformed"

\* The messages whose handler writes an activity-log entry whenever it runs.
Logs(frame) ==
    /\ frame.form = "valid"
    /\ frame.type \in AdminMessageKinds \ {"question_expired"}

NotExpired(entry) == entry.kind # "question_expired"

Quiet == reloadTimers = 0 /\ loadActiveQuestionsTimeout = 0 /\ aforoTimers = 0

\* The calls of loadActiveQuestions() and of loadAforoData() the router has
\* set timeouts for.
ReloadCalls == reloadRequests["question_created"] + reloadRequests["question_expired"]

AforoCalls ==
    reloadRequests["attendance_registered"] + reloadRequests["vote_registered"]
        + reloadRequests["participant_removed"]

\* C22 as stated: every refresh timeout the router sets issues its own fetch,
\* so once all have run there are as many fetches as timeouts.
C22_NoCoalescing ==
    Quiet => (activeFetches = ReloadCalls /\ aforoFetches = AforoCalls)

\* C22 amended: every timeout of loadAforoData() issues its own fetch; the
\* calls of loadActiveQuestions() share one pending fetch, so k of them issue
\* between one and k fetches.
C22_Debounced ==
    /\ loadActiveQuestionsTimeout <= 1
    /\ aforoFetches + aforoTimers = AforoCalls
    /\ activeFetches + loadActiveQuestionsTimeout + reloadTimers <= ReloadCalls
    /\ ReloadCalls >= 1 => activeFetches + loadActiveQuestionsTimeout + reloadTimers >= 1

\* Two question_created messages have led to one fetch of the active
\* questions, and a vote_registered to its own fetch.
C22_Witness ==
    /\ Quiet
    /\ reloadRequests["question_created"] = 2
    /\ activeFetches = 1
    /\ reloadRequests["vote_registered"] = 1
    /\ aforoFetches = 1

\* The typed values whose code, trimmed, is not digits, a hyphen, digits.
BadInputs ==
    { <<>>, <<" ">>, <<"a", "b", "c">>, <<"1", "-">>, <<"-", "2", "0", "1">>,
      <<"1", "2", "0", "1">>, <<"1", "-", "2", "-", "3">>, <<"a", "-", "1">>,
      <<"1", "-", "a">>, <<"1", "-", "-", "2">>, <<"1", " ", "-", "2">>,
      <<"a", "1", "-", "2">>, <<"1", "-", "2", "b">> }

GoodInputs ==
    { <<"1", "-", "2", "0", "1">>, <<" ", "1", "-", "2", "0", "1", " ">>,
      <<"1", "2", "-", "3", "4">> }

\* C23: a code that does not match ^\d+-\d+$ makes registerAttendance,
\* accessVoting and processDeleteCode show the error message and return with
\* no request sent and the session as it was; "1-201" passes and the request
\* of the handler is sent.
C23_InvalidCodeBlocked ==
    [][/\ \A fn \in FormHandlers, value \in BadInputs :
            codeEntered(fn, value) =>
                /\ UNCHANGED <<sessVars, connVars, asyncVars, uiVars, clockVars>>
                /\ toasts' = show(toasts, "invalidCode", "error")
       /\ \A value \in GoodInputs :
            /\ codeEntered("accessVoting", value) =>
                  inflight'["voterLogin"] = inflight["voterLogin"] + 1
            /\ codeEntered("registerAttendance", value) =>
                  inflight'["register"] = inflight["register"] + 1
            /\ codeEntered("processDeleteCode", value) =>
                  inflight'["deleteCode"] = inflight["deleteCode"] + 1]_vars

\* A malformed code has been refused with the error message and no request.
C23_Witness ==
    /\ \E i \in 1..Len(toasts) : toasts[i].kind = "invalidCode"
    /\ \A kind \in RequestKinds : inflight[kind] = 0
    /\ screen = "welcome-screen"
    /\ currentUser = NoUser
    /\ ~voterToken

\* The toast a step has added.
ToastAdded == Len(toasts') = Len(toasts) + 1

\* C24: an accepted yes/no vote of a real voter shows the success toast and
\* reloads the questions; a rejected one reloads nothing and leaves the
\* session as it was, and when the rejection says "Ya has votado" the toast
\* reads "Ya has votado en esta pregunta", not the raw message.
C24_VoteOutcome ==
    [][/\ (VoteOk /\ ToastAdded) =>
            /\ toasts'[Len(toasts')] = [kind |-> "vote", type |-> "success"]
            /\ inflight'["questions"] > 0
       /\ \A detail \in RejectionDetails :
            VoteFails(detail) =>
                /\ UNCHANGED <<sessVars, connVars, timeouts>>
                /\ inflight'["questions"] = inflight["questions"]
                /\ (ToastAdded /\ detail = "Ya has votado en esta pregunta") =>
                      toasts'[Len(toasts')].kind = "Ya has votado en esta pregunta"]_vars

\* ---------------------------------------------------------------------
\* C25
\* ---------------------------------------------------------------------
\* The ways a Session is created, restored and destroyed from the welcome screen.
NextRoles ==
    \/ TryRestoreStart
    \/ TryRestoreOk
    \/ TryRestoreFail
    \/ UserReload
    \/ validateAdminCredentials
    \/ AdminLoginOk
    \/ accessVoting
    \/ AccessVotingOk
    \/ validateTestUserAdmin
    \/ DemoLoginOk
    \/ registerAttendance
    \/ processDirectRegistration
    \/ LogoutClick
    \/ \E s \in SocketIds : OnClose(s)

SpecRoles == Init /\ [][NextRoles]_vars

AdminRole == isAdmin \/ adminToken
VoterRole == currentUser # NoUser \/ voterToken

\* C25: the tab holds one Session with one role: the admin flag or admin token
\* is never set together with a voter identity or voter token.
C25_SingleRole == ~(AdminRole /\ VoterRole)

\* ---------------------------------------------------------------------
\* C26
\* ---------------------------------------------------------------------
Pending(i) == i \in 1..Len(powerPromises) /\ powerPromises[i].state = "pending"

\* C26: when the 60 s timeout of a power question runs while its promise is
\* still pending, the promise resolves with false, the awaiting registration
\* is sent, the modal is hidden and the timeout warning is shown; a resolved
\* promise keeps its value.
C26_PowerQuestionTimesOut ==
    [][ /\ \A i \in 1..MaxPromises :
             (PowerTimeout(i) /\ Pending(i)) =>
                 /\ powerPromises'[i].state = "false"
                 /\ inflight'["register"] > 0
                 /\ toasts' = show(toasts, "Tiempo agotado", "warning")
                 /\ (activeModal = powerPromises[i].modal /\ activeModal \in container)
                        => Len(hideTimers') = Len(hideTimers) + 1
        /\ \A i \in 1..Len(powerPromises) :
             (~Pending(i) /\ Len(powerPromises') >= i) => powerPromises'[i] = powerPromises[i]
      ]_vars

\* ---------------------------------------------------------------------
\* C29
\* ---------------------------------------------------------------------
\* C29: the timeout of a hide() removes the modal that was active when that
\* hide() was called and no other: a modal shown since then stays in the
\* container and stays the active modal.
C29_HideRemovesItsModal ==
    [][ HideTimeout =>
            LET m == Head(hideTimers)
            IN /\ container' = container \ {m}
               /\ activeModal' = IF activeModal = m THEN 0 ELSE activeModal
      ]_vars

\* ---------------------------------------------------------------------
\* C27
\* ---------------------------------------------------------------------
SessionDestroyed == ~isAdmin /\ currentUser = NoUser

\* C27: once the Session is destroyed (isAdmin false, currentUser null) no
\* WebSocket of either role is open.
C27_NoSocketWithoutSession ==
    SessionDestroyed => \A s \in SocketIds : sockets[s].state # "open"

\* ---------------------------------------------------------------------
\* C28
\* ---------------------------------------------------------------------
Reference(role) == IF role = "admin" THEN adminWebSocket ELSE voterWebSocket
ReferenceAfter(role) == IF role = "admin" THEN adminWebSocket' ELSE voterWebSocket'

\* Socket s is superseded: its role's reference names another socket.
Superseded(s) ==
    /\ sockets[s].state # "free"
    /\ Reference(sockets[s].role) \notin {0, s}

\* C28: the close event of a superseded socket leaves the role's reference on
\* the current socket and schedules no reconnect for that role.
C28_StaleCloseIgnored ==
    [][ \A s \in SocketIds :
            (OnClose(s) /\ Superseded(s)) =>
                /\ ReferenceAfter(sockets[s].role) = Reference(sockets[s].role)
                /\ reconnectTimers' = reconnectTimers
      ]_vars

\* ---------------------------------------------------------------------
\* C30
\* ---------------------------------------------------------------------
SelectionLimit == IF allowMultiple THEN maxSelections ELSE 1

\* C30: the number of selected options never exceeds maxSelections (1 for a
\* single-choice card), the submit button is enabled iff an option is
\* selected, and submitMultipleVote with no option selected sends no request.
C30_SelectionBounded ==
    /\ [](Cardinality(selected) <= SelectionLimit)
    /\ [](submitDisabled <=> selected = {})
    /\ [][(submitMultipleVoteCall /\ selected = {}) => inflight' = inflight]_vars

\* The card is full and a further click was refused.
C30_Witness ==
    /\ allowMultiple
    /\ Cardinality(selected) = maxSelections
    /\ maxSelections < MaxOptions
    /\ ~submitDisabled
    /\ \E i \in 1..Len(toasts) : toasts[i].kind = "maxSelections"

====
